---- MODULE Spec2Model ----
(***************************************************************************)
(* A model of the patch-to-code locator of src/util/ts_func_extract.py     *)
(* (extract_old_ranges, _build_line_offsets, _find_macro_blocks and        *)
(* find_functions_for_patch with its nested range_to_bytes) and of the     *)
(* metadata block parser extract_cve_meta of src/util/cve_meta.py; of the   *)
(* resumable prompt sender send_prompts_from_prompt_dir of                 *)
(* src/rootCauseAnalysis.py (and its twin in src/rootCause2plan.py), of    *)
(* the instance cache _get_llm of src/fl/llm.py and of                     *)
(* generate_prompt_files of src/util/prompt_pack.py.                       *)
(*                                                                         *)
(* A text is a sequence of characters, a character is a one-element        *)
(* string; "u2" stands for a character whose UTF-8 encoding is two bytes   *)
(* long (such as U+00E9).  A byte is a pair <<character, k>>, the k-th     *)
(* byte of that character's encoding.  Offsets are 0-based as in Python;   *)
(* sequences are indexed from 1 as in TLA+.                                *)
(***************************************************************************)
EXTENDS Integers, Sequences, FiniteSets, TLC

VARIABLES
    pc,           \* position of the modelled call
    diff_lines,   \* the lines the diff text was written from (not read by the code)
    patch_diff,   \* argument: the unified diff text
    source_text,  \* argument: the pre-patch source text
    func_nodes,   \* the function_definition spans the C parser reports, DFS order
    ranges,       \* extract_old_ranges(patch_diff)
    macro_blocks, \* _find_macro_blocks(source_text)
    hunk_i,       \* index of the next hunk of `ranges` to process
    cur_range,    \* (rs, re) of the hunk processed last
    seen_funcs,   \* set of (start_byte, end_byte) keys already emitted
    snippets,     \* emitted snippets, in emission order
    raised,       \* TRUE once the call has raised an exception
    body,         \* the lines the annotated file was written from (not read by the code)
    content,      \* extract_cve_meta: the text of the file
    block,        \* extract_cve_meta: the lines of the first comment block
    line_i,       \* extract_cve_meta: index of the next line of `block`
    collecting_patch_diff,         \* extract_cve_meta: flag of line 43
    collecting_patch_description,  \* extract_cve_meta: flag of line 44
    patch_diff_lines,              \* extract_cve_meta: buffer of line 45
    patch_description_lines,       \* extract_cve_meta: buffer of line 46
    meta,         \* extract_cve_meta: the record under construction, then returned
    call_no,      \* which call of find_functions_for_patch in a row this is
    first_call,   \* the arguments, the parser's answer and the result of the first call
    tree,         \* prompt/context: directory name -> names of the prompt files in it
    raising,      \* the prompt files, (directory, name), whose send raises
    list_file,    \* the lines of PROMPT_DIR.txt on disk
    list_lines,   \* send_prompts_from_prompt_dir: `lines`, the list in memory
    dir_i,        \* send_prompts_from_prompt_dir: `i`
    file_j,       \* send_prompts_from_prompt_dir: `j`
    sent,         \* the calls of send_message_from_file so far, in order
    run_no,       \* which run of send_prompts_from_prompt_dir over the list file this is
    at_start,     \* the list file as it was when the current run read it
    LLM_INSTANCE, \* fl/llm.py line 9: _LLM_INSTANCE
    LLM_CONFIG,   \* fl/llm.py line 10: _LLM_CONFIG
    llm_call,     \* the last call of _get_llm: arguments, state before, outcome
    llm_built,    \* number of ChatOpenAI instances constructed so far
    files,        \* the files generate_prompt_files looks at: path -> content
    gen_call      \* the last call of generate_prompt_files: arguments, state before, outcome

\* the variables of extract_cve_meta
metaVars == <<body, content, block, line_i, collecting_patch_diff,
              collecting_patch_description, patch_diff_lines,
              patch_description_lines, meta>>

\* the variables of a sequence of calls
callVars == <<call_no, first_call>>

\* the variables of send_prompts_from_prompt_dir
sendVars == <<tree, raising, list_file, list_lines, dir_i, file_j, sent, run_no, at_start>>

\* the variables of _get_llm
llmVars == <<LLM_INSTANCE, LLM_CONFIG, llm_call, llm_built>>

\* the variables of generate_prompt_files
genVars == <<files, gen_call>>

\* the variables of the sender, the model cache and the prompt generator
plumbVars == <<sendVars, llmVars, genVars>>

vars == <<pc, diff_lines, patch_diff, source_text, func_nodes, ranges, macro_blocks,
          hunk_i, cur_range, seen_funcs, snippets, raised, metaVars, callVars,
          plumbVars>>

(***************************************************************************)
(* Bounds of the model.                                                    *)
(***************************************************************************)
MaxDiffLines == 2   \* lines of a diff text given to extract_old_ranges alone
MaxSrcLines == 2    \* source fragments of a source text
MaxHunks == 2       \* lines of a diff text given to find_functions_for_patch
MaxFuncs == 1       \* function_definition nodes the parser reports
MaxBodyLines == 3   \* lines between the markers of a comment block
MaxMacroFrags == 4  \* fragments of a text given to _find_macro_blocks alone

(***************************************************************************)
(* Characters and texts.                                                   *)
(***************************************************************************)
Digits == <<"0", "1", "2", "3", "4", "5", "6", "7", "8", "9">>

DigitSet == {Digits[k] : k \in 1..10}

\* Python's \s on str, restricted to the characters of the model
Whitespace == {" ", "\n", "\r"}

\* [A-Z_] and [A-Z0-9_] of _MACRO_HEAD_RE, restricted to the model's characters
MacroFirst == {"M", "_"}

MacroRest == MacroFirst \cup DigitSet

\* t[i] for a 1-based index, "" outside the text
At(t, i) == IF i \in 1..Len(t) THEN t[i] ELSE ""

RECURSIVE SkipWhile(_, _, _)
\* the first index >= i whose character is not in S (greedy S*)
SkipWhile(t, i, S) == IF At(t, i) \in S THEN SkipWhile(t, i + 1, S) ELSE i

RECURSIVE Concat(_)
\* the concatenation of a sequence of texts
Concat(ss) == IF ss = <<>> THEN <<>> ELSE Head(ss) \o Concat(Tail(ss))

DigitVal(c) == (CHOOSE k \in 1..10 : Digits[k] = c) - 1

RECURSIVE ParseInt(_)
\* int() of a non-empty run of decimal digits
ParseInt(ds) ==
    IF ds = <<>> THEN 0
    ELSE 10 * ParseInt(SubSeq(ds, 1, Len(ds) - 1)) + DigitVal(ds[Len(ds)])

RECURSIVE FormatInt(_)
\* the decimal digits of a natural number, as a diff tool prints it
FormatInt(n) ==
    IF n < 10 THEN <<Digits[n + 1]>>
    ELSE FormatInt(n \div 10) \o <<Digits[(n % 10) + 1]>>

(***************************************************************************)
(* _HUNK_RE and extract_old_ranges.                                        *)
(***************************************************************************)
NoMatch == [ok |-> FALSE, end |-> 0, old_start |-> <<>>, old_count |-> <<>>]

\* `\d+(?:,\d+)?` at index i: [ok, end, num, cnt]; cnt = <<>> is an unmatched group
NumberPair(t, i) ==
    LET e1 == SkipWhile(t, i, DigitSet)
        e2 == SkipWhile(t, e1 + 1, DigitSet)
        grp == At(t, e1) = "," /\ e2 > e1 + 1
    IN  [ok |-> e1 > i,
         end |-> IF grp THEN e2 ELSE e1,
         num |-> SubSeq(t, i, e1 - 1),
         cnt |-> IF grp THEN SubSeq(t, e1 + 1, e2 - 1) ELSE <<>>]

\* _HUNK_RE.match at index p (1-based); end is the index after the match
HunkMatchAt(t, p) ==
    LET q1 == SkipWhile(t, p + 2, Whitespace)          \* @@\s*
        old == NumberPair(t, q1 + 1)                    \* -(\d+)(?:,(\d+))?
        q2 == SkipWhile(t, old.end, Whitespace)         \* \s+
        new == NumberPair(t, q2 + 1)                    \* \+(\d+)(?:,(\d+))?
        q3 == SkipWhile(t, new.end, Whitespace)         \* \s*
    IN  IF /\ At(t, p) = "@" /\ At(t, p + 1) = "@"
           /\ At(t, q1) = "-" /\ old.ok
           /\ q2 > old.end
           /\ At(t, q2) = "+" /\ new.ok
           /\ At(t, q3) = "@" /\ At(t, q3 + 1) = "@"
        THEN [ok |-> TRUE, end |-> q3 + 2,
              old_start |-> old.num, old_count |-> old.cnt]
        ELSE NoMatch

RECURSIVE HunkFinditer(_, _)
\* _HUNK_RE.finditer from index p: the non-overlapping matches, left to right
HunkFinditer(t, p) ==
    IF p > Len(t) THEN <<>>
    ELSE LET m == HunkMatchAt(t, p)
         IN  IF m.ok THEN <<m>> \o HunkFinditer(t, m.end)
             ELSE HunkFinditer(t, p + 1)

\* OldEnd with old_start left out of the sum
OldEndNoStart(old_start, old_count) ==
    IF old_count > 0 THEN old_count - 1 ELSE old_start - 1

\* line 23: the old-file end line of a hunk
OldEnd(old_start, old_count) ==
    IF old_count > 0 THEN old_start + old_count - 1 ELSE old_start - 1

\* HunkOfMatch with an omitted count read as 0
HunkOfMatchDefaultZero(m) ==
    LET old_start == ParseInt(m.old_start)
        old_count == IF m.old_count # <<>> THEN ParseInt(m.old_count) ELSE 0
    IN  <<old_start, OldEnd(old_start, old_count)>>

\* lines 20-24: one match to its (old_start, old_end) pair
HunkOfMatch(m) ==
    LET old_start == ParseInt(m.old_start)
        old_count == IF m.old_count # <<>> THEN ParseInt(m.old_count) ELSE 1
    IN  <<old_start, OldEnd(old_start, old_count)>>

extract_old_ranges(diff) ==
    IF diff = <<>> THEN <<>>
    ELSE LET ms == HunkFinditer(diff, 1)
         IN  [k \in 1..Len(ms) |-> HunkOfMatch(ms[k])]

(***************************************************************************)
(* UTF-8 encoding and decoding.                                            *)
(***************************************************************************)
\* the number of bytes of a character's UTF-8 encoding
Width(c) == IF c = "u2" THEN 2 ELSE 1

\* str.encode("utf-8"): the bytes of a text
Encode(t) == Concat([i \in 1..Len(t) |-> [k \in 1..Width(t[i]) |-> <<t[i], k>>]])

RECURSIVE Decode(_)
\* bytes.decode("utf-8", errors="ignore"): complete characters, the rest dropped
Decode(b) ==
    IF b = <<>> THEN <<>>
    ELSE LET c == b[1][1]
             w == Width(c)
             whole == /\ b[1][2] = 1
                      /\ Len(b) >= w
                      /\ \A k \in 1..w : b[k] = <<c, k>>
         IN  IF whole THEN <<c>> \o Decode(SubSeq(b, w + 1, Len(b)))
             ELSE Decode(Tail(b))

\* lines 99-100 giving the character offset itself
CharLen(t, n) == n

\* len(text[:n].encode("utf-8")) for a 0-based character offset n
Utf8Len(t, n) == Len(Encode(SubSeq(t, 1, n)))

\* source_bytes[s:e] for 0-based byte offsets
ByteSlice(b, s, e) == SubSeq(b, s + 1, e)

(***************************************************************************)
(* str.splitlines(True) and _build_line_offsets.                           *)
(***************************************************************************)
\* the line boundaries of str.splitlines among the model's characters
LineBreaks == {"\n", "\r"}

RECURSIVE FirstIn(_, _, _)
\* the first index >= i whose character is in S, 0 when there is none
FirstIn(t, i, S) ==
    IF i > Len(t) THEN 0
    ELSE IF t[i] \in S THEN i ELSE FirstIn(t, i + 1, S)

RECURSIVE SplitLines(_)
\* text.splitlines(True): the lines with their terminators; "\r\n" is one terminator
SplitLines(t) ==
    IF t = <<>> THEN <<>>
    ELSE LET i == FirstIn(t, 1, LineBreaks)
             e == IF i = 0 THEN Len(t)
                  ELSE IF t[i] = "\r" /\ At(t, i + 1) = "\n" THEN i + 1 ELSE i
         IN  <<SubSeq(t, 1, e)>> \o SplitLines(SubSeq(t, e + 1, Len(t)))

\* lines 54-57: what `pos += len(ln)` adds for one line
LineStep(ln) == Len(ln)

RECURSIVE OffsetsFrom(_, _)
OffsetsFrom(lines, pos) ==
    IF lines = <<>> THEN <<>>
    ELSE <<pos>> \o OffsetsFrom(Tail(lines), pos + LineStep(Head(lines)))

\* _build_line_offsets: (offsets, lines)
build_line_offsets(text) ==
    LET lines == SplitLines(text)
    IN  [offsets |-> OffsetsFrom(lines, 0), lines |-> lines]

(***************************************************************************)
(* _MACRO_HEAD_RE and _find_macro_blocks.                                  *)
(***************************************************************************)
\* _MACRO_HEAD_RE.match at index p (1-based): ^\s*[A-Z_][A-Z0-9_]*\s*\( with re.M
MacroHeadMatchAt(t, p) ==
    LET q1 == SkipWhile(t, p, Whitespace)
        q2 == SkipWhile(t, q1 + 1, MacroRest)
        q3 == SkipWhile(t, q2, Whitespace)
    IN  IF /\ (p = 1 \/ At(t, p - 1) = "\n")
           /\ At(t, q1) \in MacroFirst
           /\ At(t, q3) = "("
        THEN [ok |-> TRUE, start |-> p, end |-> q3 + 1]
        ELSE [ok |-> FALSE, start |-> 0, end |-> 0]

RECURSIVE MacroFinditer(_, _)
\* _MACRO_HEAD_RE.finditer from index p
MacroFinditer(t, p) ==
    IF p > Len(t) THEN <<>>
    ELSE LET m == MacroHeadMatchAt(t, p)
         IN  IF m.ok THEN <<m>> \o MacroFinditer(t, m.end)
             ELSE MacroFinditer(t, p + 1)

\* lines 84-96 stopping at the first "}" whatever the depth
BraceEndFirstClose(t, i, depth) ==
    LET j == FirstIn(t, i, {"}"}) IN IF j = 0 THEN -1 ELSE j

RECURSIVE BraceEnd(_, _, _)
\* lines 84-96: scan from index i at the given depth; the 0-based end_char, -1 for None
BraceEnd(t, i, depth) ==
    IF i > Len(t) THEN -1
    ELSE IF t[i] = "{" THEN BraceEnd(t, i + 1, depth + 1)
    ELSE IF t[i] = "}" THEN (IF depth - 1 = 0 THEN i ELSE BraceEnd(t, i + 1, depth - 1))
    ELSE BraceEnd(t, i + 1, depth)

\* lines 80-101 for one head match: <<(start_b, end_b)>>, or <<>> when discarded
MacroBlockOf(t, m) ==
    LET start_char == m.start - 1
        brace_pos == FirstIn(t, m.end, {"{"})
        end_char == IF brace_pos = 0 THEN -1 ELSE BraceEnd(t, brace_pos, 0)
    IN  IF end_char = -1 THEN <<>>
        ELSE << <<Utf8Len(t, start_char), Utf8Len(t, end_char)>> >>

find_macro_blocks(text) ==
    IF text = <<>> THEN <<>>
    ELSE LET ms == MacroFinditer(text, 1)
         IN  Concat([k \in 1..Len(ms) |-> MacroBlockOf(text, ms[k])])

(***************************************************************************)
(* range_to_bytes, the closure of find_functions_for_patch.                *)
(***************************************************************************)
Max(a, b) == IF a >= b THEN a ELSE b

Min(a, b) == IF a <= b THEN a ELSE b

\* Python's seq[i] for a 0-based index i >= -1 that is known to be < len(seq)
PyIndexOk(seq, i) == IF i >= 0 THEN TRUE ELSE Len(seq) + i >= 0

PyIndex(seq, i) == IF i >= 0 THEN seq[i + 1] ELSE seq[Len(seq) + i + 1]

\* lines 131-134: the pure-insertion branch
InsertionRange(line_offsets, total_len, old_start) ==
    LET anchor_idx == Max(1, old_start)
        start_byte == IF anchor_idx - 1 < Len(line_offsets)
                      THEN line_offsets[anchor_idx] ELSE total_len
    IN  [raised |-> FALSE, rs |-> start_byte, re |-> Min(start_byte + 1, total_len)]

\* lines 135-143: the branch for old_end >= old_start
LinesRange(lines, line_offsets, total_len, old_start, old_end) ==
    LET start_idx == Max(1, old_start)
        end_idx == Max(old_start, old_end)
        start_byte == IF start_idx - 1 < Len(line_offsets)
                      THEN line_offsets[start_idx] ELSE total_len
        in_table == end_idx - 1 < Len(line_offsets)
    IN  IF in_table /\ ~PyIndexOk(lines, end_idx - 1)
        THEN [raised |-> TRUE, rs |-> 0, re |-> 0]          \* IndexError
        ELSE LET end_byte == IF in_table
                             THEN PyIndex(line_offsets, end_idx - 1)
                                    + Len(PyIndex(lines, end_idx - 1))
                             ELSE total_len
             IN  [raised |-> FALSE, rs |-> start_byte, re |-> Min(end_byte, total_len)]

\* range_to_bytes(old_start, old_end) over the line table of `text`
range_to_bytes(text, old_start, old_end) ==
    LET lo == build_line_offsets(text)
        total_len == Len(Encode(text))
    IN  IF old_end < old_start
        THEN InsertionRange(lo.offsets, total_len, old_start)
        ELSE LinesRange(lo.lines, lo.offsets, total_len, old_start, old_end)

(***************************************************************************)
(* find_functions_for_patch.                                               *)
(***************************************************************************)
\* EarlyReturn with the test of the source text forgotten
EarlyReturnDiffOnly(src, diff) == diff = <<>>

\* line 113: the guard of the first early return
EarlyReturn(src, diff) == src = <<>> \/ diff = <<>>

\* Intersects with closed ranges: a block touching the hunk range counts as hit
IntersectsTouching(s, e, rs, re) == ~(e < rs \/ s > re)

\* lines 153 and 162: `not (end <= rs or start >= re)`
Intersects(s, e, rs, re) == ~(e <= rs \/ s >= re)

\* AlreadySeen with the lookup lost: every hit is emitted again
NeverSeen(key, seen) == FALSE

\* lines 155 and 164: `key in seen_funcs`
AlreadySeen(key, seen) == key \in seen

\* SnippetText cut to the part of the block the hunk range covers
ClippedText(bytes, s, e, rs, re) ==
    Decode(ByteSlice(bytes, IF s >= rs THEN s ELSE rs, IF e <= re THEN e ELSE re))

\* lines 158 and 167: the text of a block, given the hunk range that hit it
SnippetText(bytes, s, e, rs, re) == Decode(ByteSlice(bytes, s, e))

\* A snippet as the model records it.  The code keeps `text` only; key, kind and
\* idx record which candidate (of which list, at which position) it was cut from.
Snippet(text, key, kind, idx) == [text |-> text, key |-> key, kind |-> kind, idx |-> idx]

RECURSIVE EmitLoop(_, _, _, _, _, _, _)
\* lines 152-159 (kind "function") and 161-168 (kind "macro"): one inner loop,
\* from candidate k on; acc = [seen, out]
EmitLoop(bytes, cands, kind, k, rs, re, acc) ==
    IF k > Len(cands) THEN acc
    ELSE LET key == cands[k]
         IN  IF Intersects(key[1], key[2], rs, re) /\ ~AlreadySeen(key, acc.seen)
             THEN EmitLoop(bytes, cands, kind, k + 1, rs, re,
                     [seen |-> acc.seen \cup {key},
                      out |-> Append(acc.out,
                                Snippet(SnippetText(bytes, key[1], key[2], rs, re),
                                        key, kind, k))])
             ELSE EmitLoop(bytes, cands, kind, k + 1, rs, re, acc)

\* HunkBody with the two inner loops in the other order
HunkBodyMacrosFirst(bytes, funcs, macros, rs, re, acc) ==
    EmitLoop(bytes, funcs, "function", 1, rs, re,
             EmitLoop(bytes, macros, "macro", 1, rs, re, acc))

\* lines 151-168: both inner loops for one hunk range, functions first
HunkBody(bytes, funcs, macros, rs, re, acc) ==
    EmitLoop(bytes, macros, "macro", 1, rs, re,
             EmitLoop(bytes, funcs, "function", 1, rs, re, acc))

(***************************************************************************)
(* Inputs.                                                                 *)
(***************************************************************************)
\* all sequences over S of length at most n
SeqsUpTo(S, n) == UNION {[1..k -> S] : k \in 0..n}

\* One line of a diff text: kind, old start a, old count b (-1: count omitted).
DiffLine(kind, a, b) == [kind |-> kind, a |-> a, b |-> b]

HeaderKinds == {"header", "header_tight"}

\* "-a[,b]" as a diff tool prints it
OldSide(a, b) ==
    <<"-">> \o FormatInt(a) \o (IF b = -1 THEN <<>> ELSE <<",">> \o FormatInt(b))

\* the characters of one diff line
RenderLine(l) ==
    CASE l.kind = "header" ->
           <<"@", "@", " ">> \o OldSide(l.a, l.b) \o <<" ", "+">> \o FormatInt(l.a)
             \o (IF l.b = -1 THEN <<>> ELSE <<",">> \o FormatInt(l.b))
             \o <<" ", "@", "@", "\n">>
      [] l.kind = "header_tight" ->
           <<"@", "@">> \o OldSide(l.a, l.b) \o <<" ", "+", "1", "@", "@", " ", "a", "\n">>
      [] l.kind = "context" -> <<" ", "a", "\n">>
      [] l.kind = "removed" -> <<"-", "a", "\n">>
      [] l.kind = "added" -> <<"+", "1", "\n">>
      [] l.kind = "no_close" -> <<"@", "@", " ", "-", "1", " ", "+", "1", " ", "@", "\n">>
      [] l.kind = "no_start" -> <<"@", "@", " ", "-", ",", "1", " ", "+", "1", " ", "@", "@", "\n">>

\* the diff text written from a sequence of lines
Render(ls) == Concat([k \in 1..Len(ls) |-> RenderLine(ls[k])])

\* the lines of the diffs given to extract_old_ranges alone
ParseDiffLines ==
    {DiffLine(k, a, b) : k \in HeaderKinds, a \in {0, 1, 12}, b \in {-1, 0, 1, 3}}
    \cup {DiffLine(k, 0, -1) : k \in {"context", "removed", "added", "no_close", "no_start"}}

\* the lines of the diffs given to find_functions_for_patch
LocateDiffLines ==
    {DiffLine("header", 1, -1), DiffLine("header", 1, 2), DiffLine("header", 2, 0),
     DiffLine("header", 0, -1), DiffLine("context", 0, -1)}

\* the fragments the source texts given to find_functions_for_patch are made of
SrcFrags ==
    {<<"M", "(", ")", "{", "}", "\n">>,
     <<"M", "(", ")", "{", "\n">>,
     <<"}", "\n">>,
     <<"u2", "\n">>}

\* the fragments the source texts given to range_to_bytes alone are made of
LineFrags ==
    {<<"a", "\n">>, <<"u2", "\n">>, <<"\n">>, <<"u2", "a">>, <<"a", "\r">>}

TextsOf(frags, n) == {Concat(fs) : fs \in SeqsUpTo(frags, n)}

\* 0-based character offsets where a function definition may start: the start of
\* a line whose first character is neither white space nor a closing brace
FuncStarts(t) ==
    {i - 1 : i \in {j \in 1..Len(t) :
                      /\ (j = 1 \/ t[j - 1] = "\n")
                      /\ t[j] \notin Whitespace \cup {"}"}}}

\* the 0-based character offset after the body of a function definition that
\* starts at offset s: after the "}" that closes the first "{"; -1 when there is none
FuncEnd(t, s) ==
    LET brace_pos == FirstIn(t, s + 1, {"{"})
    IN  IF brace_pos = 0 THEN -1 ELSE BraceEnd(t, brace_pos, 0)

\* the byte spans a function_definition node may have
FuncSpans(t) ==
    {<<Utf8Len(t, s), Utf8Len(t, FuncEnd(t, s))>> :
        s \in {x \in FuncStarts(t) : FuncEnd(t, x) # -1}}

\* _collect_function_defs appends nodes in depth-first pre-order: the spans are
\* pairwise nested or disjoint, a parent before its children, siblings left to right
IsDfsOrder(ns) ==
    \A i, j \in 1..Len(ns) : i < j =>
        /\ ns[i][1] < ns[j][1] \/ (ns[i][1] = ns[j][1] /\ ns[i][2] > ns[j][2])
        /\ ns[j][1] >= ns[i][2] \/ ns[j][2] <= ns[i][2]

\* lines 121-123: what parser.parse and _collect_function_defs may give for a text.
\* The C grammar is not part of the repository: any such list is possible.
FuncNodeChoices(t) == {ns \in SeqsUpTo(FuncSpans(t), MaxFuncs) : IsDfsOrder(ns)}

(***************************************************************************)
(* The specification of find_functions_for_patch: one call.                *)
(***************************************************************************)
\* the call is the first one
CallIdle ==
    /\ call_no = 1
    /\ first_call = <<>>

\* send_prompts_from_prompt_dir is not called
SendIdle ==
    /\ tree = <<>>
    /\ raising = {}
    /\ list_file = <<>>
    /\ list_lines = <<>>
    /\ dir_i = 0
    /\ file_j = 0
    /\ sent = <<>>
    /\ run_no = 1
    /\ at_start = <<>>

\* Python's None where the other values are records
NoneRecord == [none |-> TRUE]

\* _get_llm is not called
LlmIdle ==
    /\ LLM_INSTANCE = NoneRecord
    /\ LLM_CONFIG = NoneRecord
    /\ llm_call = [no |-> 0]
    /\ llm_built = 0

\* generate_prompt_files is not called
GenIdle ==
    /\ files = <<>>
    /\ gen_call = [no |-> 0]

\* none of the sender, the model cache and the prompt generator is called
PlumbIdle == SendIdle /\ LlmIdle /\ GenIdle

\* extract_cve_meta is not called
MetaIdle ==
    /\ body = <<>>
    /\ content = <<>>
    /\ block = <<>>
    /\ line_i = 1
    /\ collecting_patch_diff = FALSE
    /\ collecting_patch_description = FALSE
    /\ patch_diff_lines = <<>>
    /\ patch_description_lines = <<>>
    /\ meta = <<>>

Init ==
    /\ pc = "call"
    /\ diff_lines \in SeqsUpTo(LocateDiffLines, MaxHunks)
    /\ patch_diff = Render(diff_lines)
    /\ source_text \in TextsOf(SrcFrags, MaxSrcLines)
    /\ func_nodes \in FuncNodeChoices(source_text)
    /\ ranges = <<>>
    /\ macro_blocks = <<>>
    /\ hunk_i = 1
    /\ cur_range = <<0, 0>>
    /\ seen_funcs = {}
    /\ snippets = <<>>
    /\ raised = FALSE
    /\ MetaIdle
    /\ PlumbIdle
    /\ CallIdle

\* line 145 keeping the set of an earlier call
KeptSeenFuncs(old) == old

\* line 145: seen_funcs = set(), a new set in every call
NewSeenFuncs(old) == {}

\* line 146: snippets = [], a new list in every call
NewSnippets(old) == <<>>

\* lines 113-127 and 145-146: the early returns (each returns a new empty list),
\* the hunks, the candidates, the set of seen ranges and the list of snippets
Call ==
    /\ pc = "call"
    /\ IF EarlyReturn(source_text, patch_diff)
       THEN /\ pc' = "done"
            /\ snippets' = <<>>
            /\ UNCHANGED <<ranges, macro_blocks, seen_funcs>>
       ELSE /\ ranges' = extract_old_ranges(patch_diff)
            /\ IF ranges' = <<>>
               THEN /\ pc' = "done"
                    /\ snippets' = <<>>
                    /\ UNCHANGED <<macro_blocks, seen_funcs>>
               ELSE /\ pc' = "loop"
                    /\ macro_blocks' = find_macro_blocks(source_text)
                    /\ seen_funcs' = NewSeenFuncs(seen_funcs)
                    /\ snippets' = NewSnippets(snippets)
    /\ UNCHANGED <<diff_lines, patch_diff, source_text, func_nodes, hunk_i,
                   cur_range, raised>>
    /\ UNCHANGED metaVars
    /\ UNCHANGED plumbVars
    /\ UNCHANGED callVars

\* lines 147-168: one iteration of the loop over the hunks
HunkStep ==
    /\ pc = "loop"
    /\ hunk_i <= Len(ranges)
    /\ LET r == range_to_bytes(source_text, ranges[hunk_i][1], ranges[hunk_i][2])
           acc == HunkBody(Encode(source_text), func_nodes, macro_blocks, r.rs, r.re,
                           [seen |-> seen_funcs, out |-> snippets])
       IN  IF r.raised
           THEN /\ raised' = TRUE
                /\ pc' = "done"
                /\ UNCHANGED <<hunk_i, cur_range, seen_funcs, snippets>>
           ELSE /\ cur_range' = <<r.rs, r.re>>
                /\ hunk_i' = hunk_i + 1
                /\ IF r.re <= r.rs
                   THEN UNCHANGED <<seen_funcs, snippets>>
                   ELSE seen_funcs' = acc.seen /\ snippets' = acc.out
                /\ UNCHANGED <<pc, raised>>
    /\ UNCHANGED <<diff_lines, patch_diff, source_text, func_nodes, ranges, macro_blocks>>
    /\ UNCHANGED metaVars
    /\ UNCHANGED plumbVars
    /\ UNCHANGED callVars

\* line 169: return snippets
Return ==
    /\ pc = "loop"
    /\ hunk_i > Len(ranges)
    /\ pc' = "done"
    /\ UNCHANGED <<diff_lines, patch_diff, source_text, func_nodes, ranges,
                   macro_blocks, hunk_i, cur_range, seen_funcs, snippets, raised>>
    /\ UNCHANGED metaVars
    /\ UNCHANGED plumbVars
    /\ UNCHANGED callVars

Next == Call \/ HunkStep \/ Return

Spec == Init /\ [][Next]_vars

(***************************************************************************)
(* The specification of extract_old_ranges alone: one call on a diff text. *)
(***************************************************************************)
InitDiff ==
    /\ pc = "extract"
    /\ diff_lines \in SeqsUpTo(ParseDiffLines, MaxDiffLines)
    /\ patch_diff = Render(diff_lines)
    /\ source_text = <<>>
    /\ func_nodes = <<>>
    /\ ranges = <<>>
    /\ macro_blocks = <<>>
    /\ hunk_i = 1
    /\ cur_range = <<0, 0>>
    /\ seen_funcs = {}
    /\ snippets = <<>>
    /\ raised = FALSE
    /\ MetaIdle
    /\ PlumbIdle
    /\ CallIdle

Extract ==
    /\ pc = "extract"
    /\ ranges' = extract_old_ranges(patch_diff)
    /\ pc' = "extracted"
    /\ UNCHANGED <<diff_lines, patch_diff, source_text, func_nodes, macro_blocks,
                   hunk_i, cur_range, seen_funcs, snippets, raised>>
    /\ UNCHANGED metaVars
    /\ UNCHANGED plumbVars
    /\ UNCHANGED callVars

NextDiff == Extract

SpecDiff == InitDiff /\ [][NextDiff]_vars

(***************************************************************************)
(* The specification of range_to_bytes alone: one call on a source text    *)
(* and one hunk, as find_functions_for_patch makes it (the text is not     *)
(* empty, the hunk is one extract_old_ranges can give).                    *)
(***************************************************************************)
\* the hunks (old_start, old_end) given to range_to_bytes
LineHunks ==
    {h \in (0..MaxSrcLines + 1) \X (-1..MaxSrcLines + 2) : h[2] >= h[1] - 1}

InitLines ==
    /\ pc = "range"
    /\ diff_lines = <<>>
    /\ patch_diff = <<>>
    /\ source_text \in TextsOf(LineFrags, MaxSrcLines) \ {<<>>}
    /\ func_nodes = <<>>
    /\ \E h \in LineHunks : ranges = <<h>>
    /\ macro_blocks = <<>>
    /\ hunk_i = 1
    /\ cur_range = <<0, 0>>
    /\ seen_funcs = {}
    /\ snippets = <<>>
    /\ raised = FALSE
    /\ MetaIdle
    /\ PlumbIdle
    /\ CallIdle

RangeCall ==
    /\ pc = "range"
    /\ LET r == range_to_bytes(source_text, ranges[1][1], ranges[1][2])
       IN  /\ raised' = r.raised
           /\ cur_range' = <<r.rs, r.re>>
    /\ pc' = "ranged"
    /\ UNCHANGED <<diff_lines, patch_diff, source_text, func_nodes, ranges,
                   macro_blocks, hunk_i, seen_funcs, snippets>>
    /\ UNCHANGED metaVars
    /\ UNCHANGED plumbVars
    /\ UNCHANGED callVars

NextLines == RangeCall

SpecLines == InitLines /\ [][NextLines]_vars

(***************************************************************************)
(* Notions the claims about find_functions_for_patch are stated with.      *)
(* They read the two arguments and the parser's answer, not the loop's     *)
(* variables.                                                              *)
(***************************************************************************)
SeqRange(q) == {q[k] : k \in 1..Len(q)}

\* the candidate blocks of the source text, by (start_byte, end_byte)
Candidates == SeqRange(func_nodes) \cup SeqRange(find_macro_blocks(source_text))

\* [rs, re) of every parsed hunk of the diff text, in diff order
HunkTable ==
    LET hs == extract_old_ranges(patch_diff)
    IN  [k \in 1..Len(hs) |->
           LET r == range_to_bytes(source_text, hs[k][1], hs[k][2])
           IN  <<r.rs, r.re>>]

\* the hunks, by index in a table of hunk ranges, whose range overlaps a block:
\* half-open overlap, start < re and end > rs
Hits(tbl, key) == {k \in 1..Len(tbl) : key[1] < tbl[k][2] /\ key[2] > tbl[k][1]}

\* the first hunk in diff order that overlaps a block
FirstHit(tbl, key) == CHOOSE k \in Hits(tbl, key) : \A m \in Hits(tbl, key) : k <= m

EmittedKeys == {snippets[i].key : i \in 1..Len(snippets)}

RECURSIVE WidthSum(_, _)
\* the byte offset after the first n characters of a text
WidthSum(t, n) == IF n = 0 THEN 0 ELSE WidthSum(t, n - 1) + Width(t[n])

\* the characters of a text that lie in the byte range [s, e)
CharsWithin(t, s, e) ==
    LET inside == {j \in 1..Len(t) : WidthSum(t, j - 1) >= s /\ WidthSum(t, j) <= e}
    IN  IF inside = {} THEN <<>>
        ELSE SubSeq(t, CHOOSE j \in inside : \A m \in inside : j <= m,
                       CHOOSE j \in inside : \A m \in inside : j >= m)

\* no line of the diff is a hunk header
NoHeaderLine == \A k \in 1..Len(diff_lines) : diff_lines[k].kind \notin HeaderKinds

(***************************************************************************)
(* C1.  find_functions_for_patch emits each candidate block at most once:  *)
(* no two emitted snippets come from the same (start_byte, end_byte)       *)
(* range, also when several hunks overlap the same block and when a        *)
(* function definition and a macro block have the same range.              *)
(***************************************************************************)
C1_NoDuplicateRanges ==
    \A i, j \in 1..Len(snippets) : i # j => snippets[i].key # snippets[j].key

\* a returned block that two hunks overlap and that is both a function definition
\* and a macro block
C1_Witness ==
    /\ pc = "done"
    /\ LET tbl == HunkTable
       IN  \E i \in 1..Len(snippets) :
             /\ Cardinality(Hits(tbl, snippets[i].key)) >= 2
             /\ snippets[i].key \in SeqRange(func_nodes)
             /\ snippets[i].key \in SeqRange(macro_blocks)

(***************************************************************************)
(* C2.  For a non-empty source text and diff, the byte ranges whose text   *)
(* is emitted are exactly the candidate blocks whose half-open range       *)
(* overlaps the range [rs, re) of at least one parsed hunk (start < re and *)
(* end > rs); a block that only touches a hunk range is not emitted, and   *)
(* the output is empty iff no candidate overlaps any hunk range.           *)
(***************************************************************************)
C2_ExactlyOverlapping ==
    (pc = "done" /\ ~raised /\ source_text # <<>> /\ patch_diff # <<>>) =>
        LET tbl == HunkTable
            cands == Candidates
        IN  /\ EmittedKeys = {key \in cands : Hits(tbl, key) # {}}
            /\ (snippets = <<>>) <=> (\A key \in cands : Hits(tbl, key) = {})

\* a call that returns one block and leaves out another that touches a hunk range
C2_Witness ==
    /\ pc = "done"
    /\ snippets # <<>>
    /\ LET tbl == HunkTable
       IN  \E key \in Candidates \ EmittedKeys : \E k \in 1..Len(tbl) :
             key[1] = tbl[k][2] \/ key[2] = tbl[k][1]

(***************************************************************************)
(* C3.  The snippets are ordered by the first hunk (in diff order) that    *)
(* overlaps the block; among blocks first hit by the same hunk, function   *)
(* definitions come before macro blocks, and within each kind the blocks   *)
(* keep their discovery order.                                             *)
(***************************************************************************)
C3_EmissionOrder ==
    Len(snippets) >= 2 =>
        LET tbl == HunkTable
        IN  \A i, j \in 1..Len(snippets) : i < j =>
              LET a == snippets[i]
                  b == snippets[j]
              IN  /\ Hits(tbl, a.key) # {} /\ Hits(tbl, b.key) # {}
                  /\ FirstHit(tbl, a.key) <= FirstHit(tbl, b.key)
                  /\ FirstHit(tbl, a.key) = FirstHit(tbl, b.key) =>
                       /\ a.kind = "macro" => b.kind = "macro"
                       /\ a.kind = b.kind => a.idx < b.idx

\* a function definition returned before a macro block that starts earlier in the
\* source, both first hit by the same hunk
C3_Witness ==
    /\ pc = "done"
    /\ LET tbl == HunkTable
       IN  \E i, j \in 1..Len(snippets) :
             /\ i < j
             /\ FirstHit(tbl, snippets[i].key) = FirstHit(tbl, snippets[j].key)
             /\ snippets[i].kind = "function" /\ snippets[j].kind = "macro"
             /\ snippets[j].key[1] < snippets[i].key[1]

\* a block returned before a block that starts earlier in the source, because an
\* earlier hunk hit it
C3_WitnessHunkOrder ==
    /\ pc = "done"
    /\ LET tbl == HunkTable
       IN  \E i, j \in 1..Len(snippets) :
             /\ i < j
             /\ FirstHit(tbl, snippets[i].key) < FirstHit(tbl, snippets[j].key)
             /\ snippets[j].key[1] < snippets[i].key[1]

(***************************************************************************)
(* C4.  As claimed: no two elements of the output are equal strings.       *)
(***************************************************************************)
C4_UniqueTexts ==
    \A i, j \in 1..Len(snippets) : i # j => snippets[i].text # snippets[j].text

\* the candidate blocks of the source have pairwise different texts
DistinctBlockTexts ==
    LET cands == Candidates
    IN  \A x, y \in cands :
          x # y => CharsWithin(source_text, x[1], x[2]) # CharsWithin(source_text, y[1], y[2])

(***************************************************************************)
(* C4, amended.  When the candidate blocks of the source have pairwise     *)
(* different texts, no two elements of the output are equal strings: equal *)
(* strings in the output are the texts of two different blocks.            *)
(***************************************************************************)
C4_UniqueTextsOfDistinctBlocks == C4_UniqueTexts \/ ~DistinctBlockTexts

\* two blocks with different texts returned, one of them hit by two hunks
C4_Witness ==
    /\ pc = "done"
    /\ Len(snippets) >= 2
    /\ DistinctBlockTexts
    /\ LET tbl == HunkTable
       IN  \E i \in 1..Len(snippets) : Cardinality(Hits(tbl, snippets[i].key)) >= 2

(***************************************************************************)
(* C5.  Every emitted snippet is the complete text of its candidate block, *)
(* the characters of the source in [start_byte, end_byte), however small   *)
(* the part the hunk overlaps; it is never clipped to the hunk's range.    *)
(***************************************************************************)
C5_FullBlockText ==
    snippets # <<>> =>
        LET cands == Candidates
        IN  \A i \in 1..Len(snippets) :
              /\ snippets[i].key \in cands
              /\ snippets[i].text =
                   CharsWithin(source_text, snippets[i].key[1], snippets[i].key[2])

\* a returned block that reaches beyond the hunk range that hit it, on both sides
C5_Witness ==
    /\ pc = "done"
    /\ LET tbl == HunkTable
       IN  \E i \in 1..Len(snippets) :
             LET k == FirstHit(tbl, snippets[i].key)
             IN  /\ snippets[i].key[1] < tbl[k][1]
                 /\ snippets[i].key[2] > tbl[k][2]

(***************************************************************************)
(* C6.  find_functions_for_patch returns the empty sequence, without       *)
(* raising, whenever the source text is empty, the diff text is empty, or  *)
(* the diff holds no hunk header, whatever the other input is.             *)
(***************************************************************************)
C6_EmptyInputsGiveEmpty ==
    (source_text = <<>> \/ patch_diff = <<>> \/ NoHeaderLine) =>
        /\ snippets = <<>>
        /\ ~raised
        /\ pc \in {"call", "done"}

\* a call with an empty source text and a diff with a hunk header has returned
C6_Witness ==
    /\ pc = "done"
    /\ source_text = <<>>
    /\ ~NoHeaderLine

\* a call with a diff without hunk header, on a source with candidate blocks, has returned
C6_WitnessNoHeader ==
    /\ pc = "done"
    /\ patch_diff # <<>> /\ NoHeaderLine
    /\ Candidates # {}

(***************************************************************************)
(* Notions the claims about extract_old_ranges are stated with.  The diff  *)
(* texts are written line by line: header lines "@@ -a[,b] +c[,d] @@" in   *)
(* two spellings, content lines, and lines that lack the closing "@@" or   *)
(* the old start.  (The pattern's \s also matches a line break, so a       *)
(* header cut off before its closing "@@" would be completed by a "@@"     *)
(* opening the next line; such texts are not among the inputs.)            *)
(***************************************************************************)
\* the pair the claim gives for a header with old start a and count b (-1: omitted)
ExpectedHunk(a, b) ==
    LET count == IF b = -1 THEN 1 ELSE b
    IN  <<a, IF count > 0 THEN a + count - 1 ELSE a - 1>>

RECURSIVE ExpectedRanges(_)
\* one pair per header line, in document order
ExpectedRanges(ls) ==
    IF ls = <<>> THEN <<>>
    ELSE (IF Head(ls).kind \in HeaderKinds
          THEN <<ExpectedHunk(Head(ls).a, Head(ls).b)>> ELSE <<>>)
         \o ExpectedRanges(Tail(ls))

(***************************************************************************)
(* C7.  extract_old_ranges returns one (old_start, old_end) pair per hunk  *)
(* header of the diff, in document order, where the count b defaults to 1, *)
(* old_end = a + b - 1 when b > 0 and old_end = a - 1 when b = 0; a diff   *)
(* that is empty or holds no well-formed header yields the empty sequence  *)
(* and no error.                                                           *)
(***************************************************************************)
C7_OnePairPerHeader ==
    pc = "extracted" =>
        /\ ranges = ExpectedRanges(diff_lines)
        /\ NoHeaderLine => ranges = <<>>
        /\ ~raised

\* two headers parsed, one without count and one with count 0, in that order
C7_Witness ==
    /\ pc = "extracted"
    /\ Len(diff_lines) = 2 /\ Len(ranges) = 2
    /\ diff_lines[1].b = -1 /\ diff_lines[2].b = 0
    /\ diff_lines[1].a # diff_lines[2].a

(***************************************************************************)
(* C8.  As claimed: every hunk extract_old_ranges can produce satisfies    *)
(* old_start >= 1 and old_end >= old_start - 1.                            *)
(***************************************************************************)
C8_StartAtLeastOne ==
    \A k \in 1..Len(ranges) : ranges[k][1] >= 1 /\ ranges[k][2] >= ranges[k][1] - 1

(***************************************************************************)
(* C8, amended.  Every hunk extract_old_ranges can produce satisfies       *)
(* old_start >= 0 and old_end >= old_start - 1: a header may give 0 as its *)
(* old start, as "@@ -0,0 +1,3 @@" does.                                   *)
(***************************************************************************)
C8_StartAtLeastZero ==
    \A k \in 1..Len(ranges) : ranges[k][1] >= 0 /\ ranges[k][2] >= ranges[k][1] - 1

\* a header with old start 0 and count 0 parsed: both bounds are met
C8_Witness ==
    /\ pc = "extracted"
    /\ \E k \in 1..Len(ranges) : ranges[k] = <<0, -1>>

(***************************************************************************)
(* Notions the claims about range_to_bytes are stated with: the offsets of *)
(* the lines in the UTF-8 encoded buffer.                                  *)
(***************************************************************************)
SourceLines == SplitLines(source_text)

TotalLen == Len(Encode(source_text))

\* the offset in the encoded buffer of the first byte of line k (1-based), the
\* buffer length when there is no such line
ByteStartOfLine(k) ==
    IF k > Len(SourceLines) THEN TotalLen
    ELSE Len(Encode(Concat(SubSeq(SourceLines, 1, k - 1))))

\* the offset just past line k with its terminator, the buffer length when there
\* is no such line
ByteEndOfLine(k) ==
    IF k > Len(SourceLines) THEN TotalLen
    ELSE Len(Encode(Concat(SubSeq(SourceLines, 1, k))))

\* the source text has a character of more than one byte
HasMultiByte == \E j \in 1..Len(source_text) : Width(source_text[j]) > 1

(***************************************************************************)
(* C9.  For every source text, also with multi-byte characters, and every  *)
(* hunk with 1 <= old_start <= old_end, range_to_bytes returns [s, e):     *)
(* s the offset in the encoded buffer of the first byte of line old_start, *)
(* e the offset just past line old_end with its terminator, each replaced  *)
(* by the buffer length when the line number exceeds the line count, so    *)
(* 0 <= s <= e <= total length.                                            *)
(***************************************************************************)
C9_ByteRangeOfLines ==
    (pc = "ranged" /\ 1 <= ranges[1][1] /\ ranges[1][1] <= ranges[1][2]) =>
        /\ ~raised
        /\ cur_range = <<ByteStartOfLine(ranges[1][1]), ByteEndOfLine(ranges[1][2])>>
        /\ 0 <= cur_range[1] /\ cur_range[1] <= cur_range[2] /\ cur_range[2] <= TotalLen

\* the same statement for source texts of one-byte characters only
C9_ByteRangeOfLinesOneByte == ~HasMultiByte => C9_ByteRangeOfLines

(***************************************************************************)
(* C10.  For every pure-insertion hunk (old_end < old_start) and every     *)
(* source text, range_to_bytes returns a range of length exactly 1 that    *)
(* starts at the offset of line old_start (line 1 for old_start = 0), or a *)
(* range of length 0 when that line lies at or past the end of the buffer. *)
(***************************************************************************)
C10_InsertionAnchor ==
    (pc = "ranged" /\ ranges[1][2] < ranges[1][1]) =>
        LET line == IF ranges[1][1] >= 1 THEN ranges[1][1] ELSE 1
        IN  IF line <= Len(SourceLines)
            THEN cur_range = <<ByteStartOfLine(line), ByteStartOfLine(line) + 1>>
            ELSE cur_range[2] - cur_range[1] = 0

\* the part of C10 about the length alone
C10_InsertionLength ==
    (pc = "ranged" /\ ranges[1][2] < ranges[1][1]) =>
        LET line == IF ranges[1][1] >= 1 THEN ranges[1][1] ELSE 1
        IN  cur_range[2] - cur_range[1] = (IF line <= Len(SourceLines) THEN 1 ELSE 0)

(***************************************************************************)
(* extract_cve_meta of src/util/cve_meta.py: texts and patterns.           *)
(***************************************************************************)
LowerLetters ==
    {"a", "b", "c", "d", "e", "f", "g", "h", "i", "j", "k", "l", "m",
     "n", "o", "p", "q", "r", "s", "t", "u", "v", "w", "x", "y", "z"}

\* \w restricted to the characters of the model
WordChars == LowerLetters \cup {"M", "X", "Y", "Z", "_"} \cup DigitSet

\* [a-zA-Z0-9_.-] of the label patterns
KeyChars == WordChars \cup {".", "-"}

\* the absent value None: no text, a text being a sequence of characters
None == <<"None">>

RECURSIVE FindSub(_, _, _)
\* str.find(pat, from): the 0-based index of the first occurrence at or after
\* the 0-based index `from`, -1 when there is none
FindSub(t, pat, from) ==
    IF from + Len(pat) > Len(t) THEN -1
    ELSE IF SubSeq(t, from + 1, from + Len(pat)) = pat THEN from
    ELSE FindSub(t, pat, from + 1)

\* one line of splitlines(True) without its terminator
StripBreak(ln) ==
    LET n == Len(ln)
    IN  IF n >= 2 /\ ln[n - 1] = "\r" /\ ln[n] = "\n" THEN SubSeq(ln, 1, n - 2)
        ELSE IF n >= 1 /\ ln[n] \in LineBreaks THEN SubSeq(ln, 1, n - 1)
        ELSE ln

\* str.splitlines()
SplitLinesPlain(t) == LET ls == SplitLines(t) IN [k \in 1..Len(ls) |-> StripBreak(ls[k])]

RECURSIVE LastNonSpace(_, _)
\* the last index <= i whose character is not white space, 0 when there is none
LastNonSpace(t, i) ==
    IF i = 0 THEN 0
    ELSE IF t[i] \in Whitespace THEN LastNonSpace(t, i - 1) ELSE i

\* str.strip()
Strip(t) == SubSeq(t, SkipWhile(t, 1, Whitespace), LastNonSpace(t, Len(t)))

\* whether pat occurs in t at the 1-based index i
OccursAt(t, pat, i) == i + Len(pat) - 1 <= Len(t) /\ SubSeq(t, i, i + Len(pat) - 1) = pat

\* str.startswith
StartsWith(t, pat) == OccursAt(t, pat, 1)

\* the common head ^\s*\*\s*@ of the label patterns: the index after "@", 0 when
\* the line does not start so
LabelHead(line) ==
    LET q1 == SkipWhile(line, 1, Whitespace)
        q2 == SkipWhile(line, q1 + 1, Whitespace)
    IN  IF At(line, q1) = "*" /\ At(line, q2) = "@" THEN q2 + 1 ELSE 0

\* line 53: re.match(r"^\s*\*\s*@([a-zA-Z0-9_.-]+)\b", line); the key may end
\* wherever a word character is followed by none
AnyLabelMatch(line) ==
    LET k0 == LabelHead(line)
        k1 == SkipWhile(line, k0, KeyChars)
    IN  /\ k0 # 0
        /\ \E k \in k0..(k1 - 1) :
              At(line, k) \in WordChars /\ At(line, k + 1) \notin WordChars

\* what lines 14-15 share: ^\s*\*\s*@<key>\s*\|\s*$
StartMatch(line, key) ==
    LET k0 == LabelHead(line)
        k1 == k0 + Len(key)
        k2 == SkipWhile(line, k1, Whitespace)
        k3 == SkipWhile(line, k2 + 1, Whitespace)
    IN  /\ k0 # 0
        /\ OccursAt(line, key, k0)
        /\ At(line, k2) = "|"
        /\ k3 = Len(line) + 1

\* line 14: _PATCH_DIFF_START_RE.match(line)
PATCH_DIFF_START_RE(line) == StartMatch(line, <<"p", "a", "t", "c", "h", "-", "d", "i", "f", "f">>)

\* line 15: _PATCH_DESCRIPTION_START_RE.match(line)
PATCH_DESCRIPTION_START_RE(line) == StartMatch(line, <<"p", "a", "t", "c", "h", "-", "d", "e", "s", "c", "r", "i", "p", "t", "i", "o", "n">>)

\* line 12: _KEY_VALUE_RE.match(line), with group 1 and group 2
KEY_VALUE_RE(line) ==
    LET k0 == LabelHead(line)
        k1 == SkipWhile(line, k0, KeyChars)
        k2 == SkipWhile(line, k1, Whitespace)
    IN  IF k0 # 0 /\ k1 > k0 /\ At(line, k1) \in Whitespace
        THEN [ok |-> TRUE, key |-> SubSeq(line, k0, k1 - 1),
              value |-> SubSeq(line, k2, Len(line))]
        ELSE [ok |-> FALSE, key |-> <<>>, value |-> <<>>]

\* lines 17-21: TARGET_KEYS, the field a recognised key is stored in
TARGET_KEYS ==
    [k \in {<<"n", "a", "m", "e">>, <<"p", "a", "t", "c", "h", "-", "c", "o", "m", "m", "i", "t">>, <<"s", "o", "u", "r", "c", "e", "-", "f", "i", "l", "e">>} |->
        IF k = <<"n", "a", "m", "e">> THEN "name"
        ELSE IF k = <<"p", "a", "t", "c", "h", "-", "c", "o", "m", "m", "i", "t">> THEN "patch_commit"
        ELSE "source_file"]

\* line 62: re.sub(r"^\s*\*\s?", "", line)
StripDecoration(line) ==
    LET q1 == SkipWhile(line, 1, Whitespace)
        q2 == IF At(line, q1 + 1) \in Whitespace THEN q1 + 2 ELSE q1 + 1
    IN  IF At(line, q1) = "*" THEN SubSeq(line, q2, Len(line)) ELSE line

Escape == <<"&", "#", "4", "7", ";">>

RECURSIVE Unescape(_)
\* line 63: cleaned.replace("&#47;", "/")
Unescape(t) ==
    IF t = <<>> THEN <<>>
    ELSE IF StartsWith(t, Escape)
         THEN <<"/">> \o Unescape(SubSeq(t, Len(Escape) + 1, Len(t)))
         ELSE <<Head(t)>> \o Unescape(Tail(t))

RECURSIVE PopBlank(_)
\* lines 88-89 and 92-93: drop the trailing lines that are blank
PopBlank(ls) ==
    IF ls # <<>> /\ Strip(ls[Len(ls)]) = <<>> THEN PopBlank(SubSeq(ls, 1, Len(ls) - 1))
    ELSE ls

RECURSIVE Join(_)
\* "\n".join(ls)
Join(ls) ==
    IF ls = <<>> THEN <<>>
    ELSE IF Len(ls) = 1 THEN ls[1]
    ELSE ls[1] \o <<"\n">> \o Join(Tail(ls))

(***************************************************************************)
(* extract_cve_meta: the scan of the block's lines.  The loop's state is   *)
(* a record of the two flags, the two buffers and the record `meta`;       *)
(* `stop` is set by the break of line 52.                                  *)
(***************************************************************************)
\* line 37: the record returned when there is no comment block
EarlyRecord ==
    [name |-> None, patch_commit |-> None, source_file |-> None, patch_diff |-> None]

\* line 41: the record the scan starts from
FreshRecord ==
    [name |-> None, patch_commit |-> None, source_file |-> None, patch_diff |-> None,
     patch_description |-> None]

\* lines 41-46: the state the loop starts in
ScanStart ==
    [collecting_patch_diff |-> FALSE, collecting_patch_description |-> FALSE,
     patch_diff_lines |-> <<>>, patch_description_lines |-> <<>>,
     meta |-> FreshRecord, stop |-> FALSE]

\* line 35 searching from the end: the last "*/" of the text
BlockEndLast(text, start) ==
    LET ends == {e \in (start + 3)..Len(text) : FindSub(text, <<"*", "/">>, e) = e}
    IN  IF ends = {} THEN -1 ELSE CHOOSE e \in ends : \A x \in ends : x <= e

\* line 35: end = content.find("*/", start + 3)
BlockEnd(text, start) == FindSub(text, <<"*", "/">>, start + 3)

\* line 82 without the strip
FieldValueRaw(m) == m.value

\* line 82: value = m.group(2).strip()
FieldValue(m) == Strip(m.value)

\* line 84 storing the value as it is
StoredValueRaw(value) == value

\* line 84: value if value else None
StoredValue(value) == IF value = <<>> THEN None ELSE value

\* line 84 keeping the value an earlier line gave the field
SetFieldOnce(record, field, value) ==
    IF record[field] = None THEN [record EXCEPT ![field] = value] ELSE record

\* line 84: meta[TARGET_KEYS[key]] = ...
SetField(record, field, value) == [record EXCEPT ![field] = value]

\* lines 70-84: a line handled in the normal state
NormalLine(st, line) ==
    LET m == KEY_VALUE_RE(line)
    IN  IF PATCH_DIFF_START_RE(line)
        THEN [st EXCEPT !.collecting_patch_diff = TRUE]
        ELSE IF PATCH_DESCRIPTION_START_RE(line)
        THEN [st EXCEPT !.collecting_patch_description = TRUE]
        ELSE IF m.ok /\ m.key \in DOMAIN TARGET_KEYS
        THEN [st EXCEPT !.meta = SetField(@, TARGET_KEYS[m.key], StoredValue(FieldValue(m)))]
        ELSE st

\* lines 54-58 with the label line consumed
AfterLabelSkip(st, line) ==
    [st EXCEPT !.collecting_patch_diff = FALSE, !.collecting_patch_description = FALSE]

\* lines 54-58 leaving the flags as they are
AfterLabelKeepFlags(st, line) == NormalLine(st, line)

\* lines 54-58 and the fall through to line 70: both flags are cleared and the
\* same line is handled in the normal state
AfterLabel(st, line) ==
    NormalLine([st EXCEPT !.collecting_patch_diff = FALSE,
                          !.collecting_patch_description = FALSE], line)

\* line 62 leaving the line as it is
CleanedRaw(line) == Unescape(line)

\* lines 62-63: the content a collected line contributes
Cleaned(line) == Unescape(StripDecoration(line))

\* lines 60-68: a content line is appended to the active buffer
Collect(st, line) ==
    IF st.collecting_patch_diff
    THEN [st EXCEPT !.patch_diff_lines = Append(@, Cleaned(line))]
    ELSE [st EXCEPT !.patch_description_lines = Append(@, Cleaned(line))]

\* lines 48-84: one iteration of the loop over the block's lines
ScanLine(st, line) ==
    IF st.collecting_patch_diff \/ st.collecting_patch_description
    THEN IF StartsWith(Strip(line), <<"*", "/">>) THEN [st EXCEPT !.stop = TRUE]
         ELSE IF AnyLabelMatch(line) THEN AfterLabel(st, line)
         ELSE Collect(st, line)
    ELSE NormalLine(st, line)

\* lines 88-90 keeping the trailing blank lines
BufferValueRaw(ls) == IF ls # <<>> THEN Join(ls) ELSE None

\* lines 88-90 and 92-94: the value a non-empty buffer gives its field
BufferValue(ls) == IF PopBlank(ls) # <<>> THEN Join(PopBlank(ls)) ELSE None

\* lines 86-96: the record returned after the loop
Finish(st) ==
    LET m1 == IF st.patch_diff_lines # <<>>
              THEN [st.meta EXCEPT !.patch_diff = BufferValue(st.patch_diff_lines)]
              ELSE st.meta
    IN  IF st.patch_description_lines # <<>>
        THEN [m1 EXCEPT !.patch_description = BufferValue(st.patch_description_lines)]
        ELSE m1

RECURSIVE ScanFrom(_, _, _)
\* lines 48-84: the loop from the i-th line on
ScanFrom(st, lines, i) ==
    IF i > Len(lines) \/ st.stop THEN st
    ELSE ScanFrom(ScanLine(st, lines[i]), lines, i + 1)

\* lines 33-96: extract_cve_meta on the text of the file
extract_cve_meta(text) ==
    LET start == FindSub(text, <<"/", "*", "*">>, 0)
        end == BlockEnd(text, start)
    IN  IF start = -1 \/ end = -1 THEN EarlyRecord
        ELSE Finish(ScanFrom(ScanStart, SplitLinesPlain(SubSeq(text, start + 1, end)), 1))

(***************************************************************************)
(* The annotated files given to extract_cve_meta.                          *)
(***************************************************************************)
MetaLineKinds ==
    {"name", "name_blank", "commit", "other", "diff", "description", "text", "blank"}

\* the kinds of line that begin a label, and those that are content
LabelKinds == {"name", "name_blank", "commit", "other", "diff", "description"}

\* the key a label line is written with
KindKey(kind) ==
    CASE kind \in {"name", "name_blank"} -> <<"n", "a", "m", "e">>
      [] kind = "commit" -> <<"p", "a", "t", "c", "h", "-", "c", "o", "m", "m", "i", "t">>
      [] kind = "other" -> <<"o", "t", "h", "e", "r">>
      [] kind = "diff" -> <<"p", "a", "t", "c", "h", "-", "d", "i", "f", "f">>
      [] kind = "description" -> <<"p", "a", "t", "c", "h", "-", "d", "e", "s", "c", "r", "i", "p", "t", "i", "o", "n">>

\* the value a label line is written with, the content a content line is written with
KindValue(kind) ==
    CASE kind = "name" -> <<"X">>
      [] kind = "commit" -> <<"Z">>
      [] kind = "other" -> <<"Y">>
      [] kind \in {"diff", "description"} -> <<"|">>
      [] kind = "text" -> <<"a", "/", "b">>
      [] kind \in {"name_blank", "blank"} -> <<>>

RECURSIVE EscapeSlashes(_)
\* a text as the annotated file holds it: "/" written as "&#47;"
EscapeSlashes(t) ==
    IF t = <<>> THEN <<>>
    ELSE (IF Head(t) = "/" THEN Escape ELSE <<Head(t)>>) \o EscapeSlashes(Tail(t))

\* the characters of one line of a comment block; the value of a "name" line
\* has white space around it
RenderMetaLine(kind) ==
    CASE kind = "name" -> <<" ", "*", " ", "@">> \o KindKey(kind) \o <<" ", " ">> \o KindValue(kind) \o <<" ">>
      [] kind \in LabelKinds \ {"name"} -> <<" ", "*", " ", "@">> \o KindKey(kind) \o <<" ">> \o KindValue(kind)
      [] kind = "text" -> <<" ", "*", " ">> \o EscapeSlashes(KindValue(kind))
      [] kind = "blank" -> <<" ", "*">>

\* how the lines are wrapped: one closed block, a closed block and a second
\* block after it, lines with no "/**" before them, a block that is never closed
Envelopes == {"block", "two_blocks", "no_open", "no_close"}

BlockOpen == <<"/", "*", "*", "\n">>

BlockClose == <<" ", "*", "/", "\n">>

SecondBlock ==
    BlockOpen \o <<" ", "*", " ", "@", "n", "a", "m", "e", " ", "Y">> \o <<"\n">> \o <<" ", "*", " ", "@", "p", "a", "t", "c", "h", "-", "d", "i", "f", "f", " ", "|">> \o <<"\n">>
      \o <<" ", "*", " ", "b">> \o <<"\n">> \o BlockClose

\* the text of the file written from an envelope and a sequence of line kinds
RenderFile(b) ==
    LET ls == Concat([k \in 1..Len(b.lines) |-> RenderMetaLine(b.lines[k]) \o <<"\n">>])
    IN  CASE b.env = "block" -> BlockOpen \o ls \o BlockClose
          [] b.env = "two_blocks" -> BlockOpen \o ls \o BlockClose \o SecondBlock
          [] b.env = "no_open" -> ls \o BlockClose
          [] b.env = "no_close" -> BlockOpen \o ls

(***************************************************************************)
(* The specification of extract_cve_meta: one call on the text of a file.  *)
(***************************************************************************)
\* the files: blocks of up to MaxBodyLines lines, and files without a block,
\* whose lines are not looked at
MetaFiles ==
    [env : {"block", "two_blocks"}, lines : SeqsUpTo(MetaLineKinds, MaxBodyLines)]
      \cup [env : Envelopes \ {"block", "two_blocks"}, lines : SeqsUpTo(MetaLineKinds, 1)]

\* find_functions_for_patch is not called
LocateIdle ==
    /\ diff_lines = <<>>
    /\ patch_diff = <<>>
    /\ source_text = <<>>
    /\ func_nodes = <<>>
    /\ ranges = <<>>
    /\ macro_blocks = <<>>
    /\ hunk_i = 1
    /\ cur_range = <<0, 0>>
    /\ seen_funcs = {}
    /\ snippets = <<>>
    /\ raised = FALSE

locateVars == <<diff_lines, patch_diff, source_text, func_nodes, ranges, macro_blocks,
                hunk_i, cur_range, seen_funcs, snippets, raised>>

InitMeta ==
    /\ pc = "meta_call"
    /\ LocateIdle
    /\ PlumbIdle
    /\ body \in MetaFiles
    /\ content = RenderFile(body)
    /\ block = <<>>
    /\ line_i = 1
    /\ collecting_patch_diff = FALSE
    /\ collecting_patch_description = FALSE
    /\ patch_diff_lines = <<>>
    /\ patch_description_lines = <<>>
    /\ meta = <<>>
    /\ CallIdle

\* lines 33-46: the block is located, or the early return is taken
MetaCall ==
    /\ pc = "meta_call"
    /\ LET start == FindSub(content, <<"/", "*", "*">>, 0)
           end == BlockEnd(content, start)
       IN  IF start = -1 \/ end = -1
           THEN /\ meta' = EarlyRecord
                /\ pc' = "meta_done"
                /\ UNCHANGED block
           ELSE /\ block' = SplitLinesPlain(SubSeq(content, start + 1, end))
                /\ meta' = ScanStart.meta
                /\ pc' = "meta_loop"
    /\ UNCHANGED <<body, content, line_i, collecting_patch_diff,
                   collecting_patch_description, patch_diff_lines,
                   patch_description_lines>>
    /\ UNCHANGED locateVars
    /\ UNCHANGED plumbVars
    /\ UNCHANGED callVars

\* the loop's state as the variables hold it
ScanState ==
    [collecting_patch_diff |-> collecting_patch_diff,
     collecting_patch_description |-> collecting_patch_description,
     patch_diff_lines |-> patch_diff_lines,
     patch_description_lines |-> patch_description_lines,
     meta |-> meta, stop |-> FALSE]

\* lines 48-84: one iteration of the loop
MetaScan ==
    /\ pc = "meta_loop"
    /\ line_i <= Len(block)
    /\ LET st == ScanLine(ScanState, block[line_i])
       IN  /\ collecting_patch_diff' = st.collecting_patch_diff
           /\ collecting_patch_description' = st.collecting_patch_description
           /\ patch_diff_lines' = st.patch_diff_lines
           /\ patch_description_lines' = st.patch_description_lines
           /\ meta' = st.meta
           /\ line_i' = IF st.stop THEN Len(block) + 1 ELSE line_i + 1
    /\ UNCHANGED <<pc, body, content, block>>
    /\ UNCHANGED locateVars
    /\ UNCHANGED plumbVars
    /\ UNCHANGED callVars

\* lines 86-96: the buffers are stored and the record is returned
MetaReturn ==
    /\ pc = "meta_loop"
    /\ line_i > Len(block)
    /\ meta' = Finish(ScanState)
    /\ pc' = "meta_done"
    /\ UNCHANGED <<body, content, block, line_i, collecting_patch_diff,
                   collecting_patch_description, patch_diff_lines,
                   patch_description_lines>>
    /\ UNCHANGED locateVars
    /\ UNCHANGED plumbVars
    /\ UNCHANGED callVars

NextMeta == MetaCall \/ MetaScan \/ MetaReturn

SpecMeta == InitMeta /\ [][NextMeta]_vars

(***************************************************************************)
(* Notions the claims about extract_cve_meta are stated with.  They read   *)
(* the lines the file was written from and the returned record.            *)
(***************************************************************************)
\* the five fields of the metadata record
Fields == {"name", "patch_commit", "source_file", "patch_diff", "patch_description"}

\* extract_cve_meta has returned
MetaDone == pc = "meta_done"

\* the file has no "/**", or has one with no "*/" after it
NoBlock == body.env \in {"no_open", "no_close"}

(***************************************************************************)
(* C11.  When the text holds no "/**", or a "/**" with no "*/" after it,   *)
(* the returned record carries each of the five fields name, patch_commit, *)
(* source_file, patch_diff and patch_description, each absent (None).      *)
(***************************************************************************)
C11_AllFiveAbsent ==
    (MetaDone /\ NoBlock) => (DOMAIN meta = Fields /\ \A f \in Fields : meta[f] = None)

(***************************************************************************)
(* C12.  In the returned record no field is the empty string: each field   *)
(* is None or a non-empty string, for every input text.                    *)
(***************************************************************************)
C12_NoEmptyString ==
    MetaDone => \A f \in DOMAIN meta : meta[f] # <<>> /\ (meta[f] = None \/ Len(meta[f]) > 0)

\* a label with a blank value and a collected buffer of blank lines only both
\* gave None, next to a field that was set
C12_Witness ==
    /\ MetaDone
    /\ body = [env |-> "block", lines |-> <<"name_blank", "diff", "blank">>]
    /\ patch_diff_lines = <<<<>>, <<" ">>>>
    /\ meta.name = None
    /\ meta.patch_diff = None

\* the file has a first comment block: its lines are "/**", the lines of `body`
\* and the white space before the closing marker
HasBlock == body.env \in {"block", "two_blocks"}

\* the loop is about to handle the k-th line of `body`
AtBodyLine(k) ==
    /\ pc = "meta_loop"
    /\ HasBlock
    /\ k \in 1..Len(body.lines)
    /\ line_i = k + 1

\* the field a recognised single-line key is stored in
FieldOfKind(kind) == IF kind \in {"name", "name_blank"} THEN "name" ELSE "patch_commit"

(***************************************************************************)
(* C13.  Handling a line "* @<key> <value>" of the first comment block     *)
(* whose key is name, patch-commit or source-file sets the corresponding   *)
(* field to the value without the white space around it and leaves the     *)
(* other fields as they are; handling a line whose key is not one of the   *)
(* recognised keys changes no field of the record.                         *)
(***************************************************************************)
C13_SingleLineFields ==
    [][\A k \in 1..Len(body.lines) : AtBodyLine(k) =>
          /\ body.lines[k] \in {"name", "commit"} =>
                meta' = [meta EXCEPT ![FieldOfKind(body.lines[k])] = KindValue(body.lines[k])]
          /\ body.lines[k] = "other" => meta' = meta]_vars

\* a "name" line and a line with an unrecognised key were handled, the first
\* of them while a patch diff was being collected
C13_Witness ==
    /\ pc = "meta_loop"
    /\ body = [env |-> "block", lines |-> <<"diff", "name", "other">>]
    /\ line_i = 5
    /\ meta.name = KindValue("name")
    /\ meta.patch_commit = None

\* a line of white space only
IsBlank(l) == \A k \in 1..Len(l) : l[k] \in Whitespace

\* ls without its trailing blank lines
WithoutTrailingBlank(ls) ==
    LET keep == {k \in 1..Len(ls) : ~IsBlank(ls[k])}
    IN  IF keep = {} THEN <<>>
        ELSE SubSeq(ls, 1, CHOOSE k \in keep : \A x \in keep : x <= k)

\* the white space between the last line break of the block and its "*/"
ClosingIndent == <<" ">>

RECURSIVE SectionLines(_, _, _, _)
\* the content of the lines of `kinds` from the k-th on that lie in a section of
\* the multi-line field f ("diff" or "description"): after a line that opens f
\* and before the next line that begins a label; `mode` is the field whose
\* section the k-th line lies in.  The white space before the closing marker is
\* the last line of the block.
SectionLines(kinds, k, mode, f) ==
    IF k > Len(kinds) THEN (IF mode = f THEN <<ClosingIndent>> ELSE <<>>)
    ELSE IF kinds[k] \in LabelKinds
         THEN SectionLines(kinds, k + 1,
                           IF kinds[k] \in {"diff", "description"} THEN kinds[k] ELSE "none", f)
         ELSE (IF mode = f THEN <<KindValue(kinds[k])>> ELSE <<>>)
                \o SectionLines(kinds, k + 1, mode, f)

\* the value of the multi-line field f for the lines of `body`
SectionValue(f) ==
    LET ls == WithoutTrailingBlank(SectionLines(body.lines, 1, "none", f))
    IN  IF ls = <<>> THEN None ELSE Join(ls)

(***************************************************************************)
(* C14.  The value of patch_diff (of patch_description) is the lines that  *)
(* follow a "* @patch-diff |" (a "* @patch-description |") line up to the  *)
(* end of collection, in order, each without its leading "* " and with     *)
(* every "&#47;" replaced by "/", joined by newline after the trailing     *)
(* blank lines are removed; the line that opens the field contributes      *)
(* nothing, and the field is None when no non-blank line remains.          *)
(***************************************************************************)
C14_MultiLineValue ==
    (MetaDone /\ HasBlock) =>
        /\ meta.patch_diff = SectionValue("diff")
        /\ meta.patch_description = SectionValue("description")

\* a blank line inside the collected lines is kept, those at the end are not
C14_Witness ==
    /\ MetaDone
    /\ body = [env |-> "block", lines |-> <<"diff", "blank", "text">>]
    /\ patch_diff_lines = <<<<>>, <<"a", "/", "b">>, <<" ">>>>
    /\ meta.patch_diff = <<"\n", "a", "/", "b">>

\* a multi-line field is being collected
Collecting == collecting_patch_diff \/ collecting_patch_description

\* what a recognised single-line label stores: its value, None when it has none
StoredKindValue(kind) == IF KindValue(kind) = <<>> THEN None ELSE KindValue(kind)

(***************************************************************************)
(* C15.  When a line that begins a recognised label is handled while a     *)
(* multi-line field is being collected, collection ends, the line is not   *)
(* appended to a buffer, and the line has the effect it has in the normal  *)
(* state: a "* @name X" line sets name to X, a "* @patch-description |"    *)
(* line starts the collection of the description (a "* @patch-diff |"      *)
(* line that of the diff).                                                 *)
(***************************************************************************)
C15_LabelWhileCollecting ==
    [][\A k \in 1..Len(body.lines) :
          (AtBodyLine(k) /\ Collecting /\ body.lines[k] \in LabelKinds \ {"other"}) =>
              /\ patch_diff_lines' = patch_diff_lines
              /\ patch_description_lines' = patch_description_lines
              /\ collecting_patch_diff' = (body.lines[k] = "diff")
              /\ collecting_patch_description' = (body.lines[k] = "description")
              /\ meta' = IF body.lines[k] \in {"diff", "description"} THEN meta
                         ELSE [meta EXCEPT ![FieldOfKind(body.lines[k])] =
                                               StoredKindValue(body.lines[k])]]_vars

\* a "name" line ended the collection of the diff, was not collected and set name
C15_Witness ==
    /\ pc = "meta_loop"
    /\ body = [env |-> "block", lines |-> <<"diff", "text", "name">>]
    /\ line_i = 5
    /\ ~Collecting
    /\ patch_diff_lines = <<KindValue("text")>>
    /\ meta.name = KindValue("name")

\* the collection of the description started on the line that ended that of the diff
C15_WitnessRestart ==
    /\ pc = "meta_loop"
    /\ body = [env |-> "block", lines |-> <<"diff", "text", "description">>]
    /\ line_i = 5
    /\ collecting_patch_description
    /\ ~collecting_patch_diff

\* the content a label line would contribute if it were collected
AsContent(kind) == <<"@">> \o KindKey(kind) \o <<" ">> \o KindValue(kind)

(***************************************************************************)
(* C16.  While a multi-line field is being collected, a line "* @<key> .." *)
(* whose key is none of name, patch-commit, source-file, patch-diff and    *)
(* patch-description does not end the collection: it is content, appended  *)
(* without its decoration to the active buffer.                            *)
(***************************************************************************)
C16_UnrecognisedKeyIsContent ==
    [][\A k \in 1..Len(body.lines) :
          (AtBodyLine(k) /\ Collecting /\ body.lines[k] = "other") =>
              /\ UNCHANGED <<collecting_patch_diff, collecting_patch_description>>
              /\ collecting_patch_diff =>
                    /\ patch_diff_lines' = Append(patch_diff_lines, AsContent("other"))
                    /\ UNCHANGED patch_description_lines
              /\ ~collecting_patch_diff =>
                    /\ patch_description_lines' =
                          Append(patch_description_lines, AsContent("other"))
                    /\ UNCHANGED patch_diff_lines]_vars

\* what the code does with such a line: the collection ends, nothing is appended
C16_AnyKeyEndsCollection ==
    [][\A k \in 1..Len(body.lines) :
          (AtBodyLine(k) /\ Collecting /\ body.lines[k] = "other") =>
              /\ ~collecting_patch_diff' /\ ~collecting_patch_description'
              /\ UNCHANGED <<patch_diff_lines, patch_description_lines, meta>>]_vars

\* the text of the file up to and including the first "*/" after its first "/**"
FirstBlockText ==
    BlockOpen
      \o Concat([k \in 1..Len(body.lines) |-> RenderMetaLine(body.lines[k]) \o <<"\n">>])
      \o ClosingIndent \o <<"*", "/">>

(***************************************************************************)
(* C17.  Only the first comment block is parsed: the record returned for   *)
(* a text is the record returned for the text cut after the first "*/"     *)
(* that follows its first "/**", so two texts that agree up to there give  *)
(* the same record, also when a further block with label lines follows.    *)
(***************************************************************************)
C17_FirstBlockOnly ==
    (MetaDone /\ HasBlock) =>
        /\ Len(content) > Len(FirstBlockText)
        /\ SubSeq(content, 1, Len(FirstBlockText)) = FirstBlockText
        /\ meta = extract_cve_meta(FirstBlockText)

\* the "name" and "patch-diff" lines of the second block were not read
C17_Witness ==
    /\ MetaDone
    /\ body = [env |-> "two_blocks", lines |-> <<"commit">>]
    /\ meta.patch_commit = KindValue("commit")
    /\ meta.name = None
    /\ meta.patch_diff = None

(***************************************************************************)
(* The specification of _find_macro_blocks alone: one call on a text.      *)
(***************************************************************************)
\* the fragments the texts given to _find_macro_blocks alone are made of
MacroFrags ==
    {<<"M", "(", "{">>, <<"M", "(">> \o <<"\n">>, <<"{">>, <<"}">>, <<"}">> \o <<"\n">>, <<"u2", "\n">>,
     <<"\n">>}

InitMacro ==
    /\ pc = "macro_call"
    /\ diff_lines = <<>>
    /\ patch_diff = <<>>
    /\ source_text \in TextsOf(MacroFrags, MaxMacroFrags)
    /\ func_nodes = <<>>
    /\ ranges = <<>>
    /\ macro_blocks = <<>>
    /\ hunk_i = 1
    /\ cur_range = <<0, 0>>
    /\ seen_funcs = {}
    /\ snippets = <<>>
    /\ raised = FALSE
    /\ MetaIdle
    /\ PlumbIdle
    /\ CallIdle

\* lines 65-102: the blocks of the text
MacroCall ==
    /\ pc = "macro_call"
    /\ macro_blocks' = find_macro_blocks(source_text)
    /\ pc' = "macro_done"
    /\ UNCHANGED <<diff_lines, patch_diff, source_text, func_nodes, ranges,
                   hunk_i, cur_range, seen_funcs, snippets, raised>>
    /\ UNCHANGED metaVars
    /\ UNCHANGED plumbVars
    /\ UNCHANGED callVars

NextMacro == MacroCall

SpecMacro == InitMacro /\ [][NextMacro]_vars

(***************************************************************************)
(* Notions the claims about _find_macro_blocks are stated with.            *)
(***************************************************************************)
\* how many of the characters t[a..b] are c
CountOf(t, a, b, c) == Cardinality({i \in a..b : t[i] = c})

\* the indices e such that t[b..e] has as many "{" as "}"
BalancedEnds(t, b) == {e \in b..Len(t) : CountOf(t, b, e, "{") = CountOf(t, b, e, "}")}

\* the least element of a non-empty set of integers
Least(S) == CHOOSE x \in S : \A y \in S : x <= y

\* for a head match m of a text t: <<(start_char, end_char)>>, the 0-based
\* character offsets of the start of the match and of the position after the
\* shortest balanced text that starts at the first "{" after the head; <<>> when
\* no "{" follows the head or no text starting there is balanced
BalancedBlock(t, m) ==
    LET opens == {i \in m.end..Len(t) : t[i] = "{"}
    IN  IF opens = {} \/ BalancedEnds(t, Least(opens)) = {} THEN <<>>
        ELSE << <<m.start - 1, Least(BalancedEnds(t, Least(opens)))>> >>

\* the blocks of all the head matches of source_text, in the order of the heads
BalancedBlocks ==
    LET ms == MacroFinditer(source_text, 1)
    IN  Concat([k \in 1..Len(ms) |-> BalancedBlock(source_text, ms[k])])

(***************************************************************************)
(* C18.  For every macro head matched, a block is reported iff a "{"       *)
(* follows the head and the brace depth counted from that "{" returns to   *)
(* 0 before the end of the text; the block ends right after the "}" that   *)
(* returns the depth to 0: the text from the first "{" to the block end    *)
(* has as many "{" as "}" and no proper prefix of it has.  A head with no  *)
(* "{" after it or with an unterminated block gives no block.              *)
(***************************************************************************)
C18_BalancedBlocks ==
    pc = "macro_done" =>
        LET bs == BalancedBlocks
        IN  /\ Len(macro_blocks) = Len(bs)
            /\ \A k \in 1..Len(bs) :
                  /\ macro_blocks[k][1] = WidthSum(source_text, bs[k][1])
                  /\ macro_blocks[k][2] = WidthSum(source_text, bs[k][2])
                  /\ source_text[bs[k][2]] = "}"

\* a nested block is reported whole
C18_Witness ==
    /\ pc = "macro_done"
    /\ source_text = <<"M", "(", "{", "{", "}", "}">> \o <<"\n">>
    /\ macro_blocks = << <<0, 6>> >>

\* a head with no "{" after it gives no block
C18_WitnessDiscarded ==
    /\ pc = "macro_done"
    /\ source_text = <<"M", "(", "{", "}">> \o <<"\n">> \o <<"M", "(">> \o <<"\n">> \o <<"}">>
    /\ Len(MacroFinditer(source_text, 1)) = 2
    /\ macro_blocks = << <<0, 4>> >>

(***************************************************************************)
(* C19.  Every range (start_b, end_b) reported by _find_macro_blocks is in *)
(* bytes of the UTF-8 encoded text, also with multi-byte characters before *)
(* or inside the block: the bytes [start_b, end_b) of the encoded text     *)
(* decode to exactly the characters from the start of the head match to    *)
(* just after the closing brace.                                           *)
(***************************************************************************)
C19_ByteRanges ==
    pc = "macro_done" =>
        LET bs == BalancedBlocks
        IN  /\ Len(macro_blocks) = Len(bs)
            /\ \A k \in 1..Len(bs) :
                  /\ 0 <= macro_blocks[k][1]
                  /\ macro_blocks[k][1] <= macro_blocks[k][2]
                  /\ macro_blocks[k][2] <= Len(Encode(source_text))
                  /\ Decode(ByteSlice(Encode(source_text), macro_blocks[k][1],
                                      macro_blocks[k][2]))
                       = SubSeq(source_text, bs[k][1] + 1, bs[k][2])

\* a two-byte character before the block and one inside it
C19_Witness ==
    /\ pc = "macro_done"
    /\ source_text = <<"u2", "\n">> \o <<"M", "(", "{">> \o <<"u2", "\n">> \o <<"}">>
    /\ macro_blocks = << <<3, 10>> >>

(***************************************************************************)
(* The specification of find_functions_for_patch called three times in a   *)
(* row by one caller: on some arguments, then on the same or on other      *)
(* arguments, then on the first arguments again.  parser.parse is taken    *)
(* to be a function of the bytes it is given (it is called without an old  *)
(* tree, line 121), so equal texts get the same function nodes.            *)
(***************************************************************************)
\* the fragments of the source texts and the lines of the diffs of these calls
TwiceFrags == {<<"M", "(", ")", "{", "}">> \o <<"\n">>, <<"u2", "\n">>}

TwiceDiffLines == {DiffLine("header", 1, -1), DiffLine("header", 2, -1)}

\* the arguments of a call with the parser's answer for the text
CallInputs ==
    UNION {[diff_lines : SeqsUpTo(TwiceDiffLines, MaxHunks), source_text : {t},
            func_nodes : FuncNodeChoices(t)] : t \in TextsOf(TwiceFrags, MaxSrcLines)}

\* arguments of the call made between two calls on the same arguments
OtherInputs ==
    {[diff_lines |-> <<DiffLine("header", 1, -1)>>,
      source_text |-> <<"M", "(", ")", "{", "}">> \o <<"\n">>, func_nodes |-> <<>>],
     [diff_lines |-> <<DiffLine("header", 1, -1)>>,
      source_text |-> <<"M", "(", ")", "{", "}">> \o <<"\n">>, func_nodes |-> << <<0, 5>> >>],
     [diff_lines |-> <<DiffLine("header", 2, -1)>>,
      source_text |-> <<"u2", "\n">> \o <<"M", "(", ")", "{", "}">> \o <<"\n">>, func_nodes |-> <<>>],
     [diff_lines |-> <<>>, source_text |-> <<>>, func_nodes |-> <<>>]}

\* the arguments and the parser's answer of the call in progress
CurrentInputs ==
    [diff_lines |-> diff_lines, source_text |-> source_text, func_nodes |-> func_nodes]

\* the call in progress with what it returned
CurrentCall ==
    [diff_lines |-> diff_lines, patch_diff |-> patch_diff, source_text |-> source_text,
     func_nodes |-> func_nodes, snippets |-> snippets, raised |-> raised]

InitTwice ==
    /\ pc = "call"
    /\ \E args \in CallInputs :
          /\ diff_lines = args.diff_lines
          /\ source_text = args.source_text
          /\ func_nodes = args.func_nodes
    /\ patch_diff = Render(diff_lines)
    /\ ranges = <<>>
    /\ macro_blocks = <<>>
    /\ hunk_i = 1
    /\ cur_range = <<0, 0>>
    /\ seen_funcs = {}
    /\ snippets = <<>>
    /\ raised = FALSE
    /\ MetaIdle
    /\ PlumbIdle
    /\ call_no = 1
    /\ first_call = <<>>

\* the caller calls find_functions_for_patch again: after the first call on the
\* same or on other arguments, after the second call on the first arguments.
\* The new call starts at line 113 with its own locals; what the earlier call
\* bound to seen_funcs and snippets is left as it is.
CallAgain ==
    /\ pc = "done"
    /\ call_no \in {1, 2}
    /\ call_no' = call_no + 1
    /\ first_call' = IF call_no = 1 THEN [first |-> CurrentCall, between |-> <<>>]
                     ELSE [first_call EXCEPT !.between = CurrentCall]
    /\ \E args \in (IF call_no = 1 THEN OtherInputs \cup {CurrentInputs}
                  ELSE {[diff_lines |-> first_call.first.diff_lines,
                         source_text |-> first_call.first.source_text,
                         func_nodes |-> first_call.first.func_nodes]}) :
          /\ args.source_text = source_text => args.func_nodes = func_nodes
          /\ diff_lines' = args.diff_lines
          /\ patch_diff' = Render(args.diff_lines)
          /\ source_text' = args.source_text
          /\ func_nodes' = args.func_nodes
    /\ pc' = "call"
    /\ ranges' = <<>>
    /\ macro_blocks' = <<>>
    /\ hunk_i' = 1
    /\ cur_range' = <<0, 0>>
    /\ raised' = FALSE
    /\ UNCHANGED <<seen_funcs, snippets>>
    /\ UNCHANGED metaVars
    /\ UNCHANGED plumbVars

NextTwice == Call \/ HunkStep \/ Return \/ CallAgain

SpecTwice == InitTwice /\ [][NextTwice]_vars

C21_OneState ==
    pc \in {"meta_loop", "meta_done"} =>
        ~(collecting_patch_diff /\ collecting_patch_description)

\* the collection of the diff started on the line that ended the collection of
\* the description
C21_Witness ==
    /\ pc = "meta_loop"
    /\ body = [env |-> "block", lines |-> <<"description", "text", "diff">>]
    /\ line_i = 5
    /\ collecting_patch_diff
    /\ ~collecting_patch_description
    /\ patch_description_lines = <<KindValue("text")>>

\* the index of the last line of `body` whose kind is in ks, 0 when there is none
LastOfKinds(ks) ==
    LET at == {k \in 1..Len(body.lines) : body.lines[k] \in ks}
    IN  IF at = {} THEN 0 ELSE CHOOSE k \in at : \A x \in at : x <= k

\* the value the last line with a kind in ks gives its field, None when that
\* value is blank or there is no such line
LastValue(ks) ==
    IF LastOfKinds(ks) = 0 THEN None ELSE StoredKindValue(body.lines[LastOfKinds(ks)])

(***************************************************************************)
(* C30.  When a recognised single-line key occurs on several lines of the  *)
(* block, the returned field holds the value of the last of them; when the *)
(* value of the last one is white space only the field is None, also when  *)
(* an earlier line gave it a value.                                        *)
(***************************************************************************)
C30_LastOccurrenceWins ==
    (MetaDone /\ HasBlock) =>
        /\ meta.name = LastValue({"name", "name_blank"})
        /\ meta.patch_commit = LastValue({"commit"})
        /\ meta.source_file = None

\* a "name" line with a value, then one with a blank value: name is None
C30_Witness ==
    /\ MetaDone
    /\ body = [env |-> "block", lines |-> <<"name", "commit", "name_blank">>]
    /\ meta.name = None
    /\ meta.patch_commit = KindValue("commit")

\* a "name" line with a blank value, then one with a value: name is the value
C30_WitnessValueLast ==
    /\ MetaDone
    /\ body = [env |-> "block", lines |-> <<"name_blank", "name">>]
    /\ meta.name = KindValue("name")

(***************************************************************************)
(* C26.  For every hunk with old_end >= old_start that extract_old_ranges  *)
(* can give, headers whose old start is 0 included, the range computed by  *)
(* range_to_bytes does not extend past the end of line max(old_end, 1): a  *)
(* hunk covers no byte of a line numbered above its old_end.               *)
(***************************************************************************)
C26_NotPastOldEnd ==
    (pc = "ranged" /\ ranges[1][2] >= ranges[1][1]) =>
        /\ ~raised
        /\ cur_range[2] <= ByteEndOfLine(Max(ranges[1][2], 1))

\* the same statement for the hunks whose old start is at least 1
C26_NotPastOldEndFromLineOne == ranges[1][1] >= 1 => C26_NotPastOldEnd

RECURSIVE StartsAfterLineFeeds(_, _)
\* the 0-based offsets after the line feeds of t from the i-th character on,
\* the last character of t left out
StartsAfterLineFeeds(t, i) ==
    IF i >= Len(t) THEN <<>>
    ELSE (IF t[i] = "\n" THEN <<i>> ELSE <<>>) \o StartsAfterLineFeeds(t, i + 1)

\* the 0-based character offsets at which the lines of a diffed file start:
\* 0 and the offset after every line feed that is not the last character
LineFeedStarts == <<0>> \o StartsAfterLineFeeds(source_text, 1)

(***************************************************************************)
(* C28.  _build_line_offsets numbers lines as a unified diff does: line k  *)
(* starts right after the (k-1)-th line feed of the source text, and no    *)
(* other character, such as a carriage return alone, starts a new line.    *)
(***************************************************************************)
C28_LinesEndAtLineFeeds ==
    pc = "ranged" => build_line_offsets(source_text).offsets = LineFeedStarts

\* the same statement for the texts in which every carriage return is followed
\* by a line feed
C28_LinesEndAtLineFeedsNoLoneCR ==
    (\A i \in 1..Len(source_text) :
        source_text[i] = "\r" => At(source_text, i + 1) = "\n")
      => C28_LinesEndAtLineFeeds

\* the 0-based character offset whose byte offset in source_text is b, -1 when
\* b is no character boundary
CharOffsetOf(b) ==
    LET cs == {c \in 0..Len(source_text) : WidthSum(source_text, c) = b}
    IN  IF cs = {} THEN -1 ELSE Least(cs)

(***************************************************************************)
(* C27.  Every block reported by _find_macro_blocks starts on the line     *)
(* that holds its macro identifier: between the start of the block and the *)
(* identifier there is white space of that line only, no line break, so no *)
(* earlier line (such as a blank line before the head) is in the block.    *)
(***************************************************************************)
C27_StartsOnHeadLine ==
    pc = "macro_done" =>
        \A k \in 1..Len(macro_blocks) :
            LET c == CharOffsetOf(macro_blocks[k][1])
                id == SkipWhile(source_text, c + 1, Whitespace)
            IN  /\ c >= 0
                /\ At(source_text, id) \in MacroFirst
                /\ \A j \in (c + 1)..(id - 1) : source_text[j] \notin LineBreaks

\* the same statement for the texts that have no blank line
C27_StartsOnHeadLineNoBlankLine ==
    (At(source_text, 1) # "\n"
       /\ \A i \in 1..Len(source_text) :
             source_text[i] = "\n" => At(source_text, i + 1) # "\n")
      => C27_StartsOnHeadLine

(***************************************************************************)
(* send_prompts_from_prompt_dir of src/rootCauseAnalysis.py, with the list *)
(* file that main writes from build_prompt_tree.  send_prompts2plan_from_dir *)
(* of src/rootCause2plan.py (lines 183-274) is the same code over another   *)
(* list file and other file names.                                          *)
(***************************************************************************)
MaxDirs == 2   \* directories under prompt/context

\* line 41
TARGET_FILES ==
    <<<<"p", "r", "o", "m", "p", "t", "_", "f", "i", "l", "e", ".", "t", "x", "t">>, <<"p", "r", "o", "m", "p", "t", "_", "f", "u", "n", "c", "t", "i", "o", "n", ".", "t", "x", "t">>, <<"p", "r", "o", "m", "p", "t", "_", "p", "a", "t", "c", "h", ".", "t", "x", "t">>>>

\* the directories under prompt/context, in the order os.walk visits them
DirNames == SubSeq(<<<<"A">>, <<"B">>, <<"C">>>>, 1, MaxDirs)

\* the sets of prompt files a directory may hold
TreeFileSets == {{}, {TARGET_FILES[1]}, {TARGET_FILES[1], TARGET_FILES[3]}}

\* the trees under prompt/context: directory name -> names of its prompt files
Trees == [{DirNames[k] : k \in 1..Len(DirNames)} -> TreeFileSets]

\* the prompt files of a tree: (directory, name)
Prompts(t) == {x \in (DOMAIN t) \X UNION TreeFileSets : x[2] \in t[x[1]]}

\* what happens to the prompt files after the list was written: nothing, or one
\* of them is deleted, or the send of one of them raises
Faults(t) ==
    {[deleted |-> {}, raising |-> {}]}
      \cup {[deleted |-> {x}, raising |-> {}] : x \in Prompts(t)}
      \cup {[deleted |-> {}, raising |-> {x}] : x \in Prompts(t)}

\* lines 62-70 for one directory below the root: the directory line and its file lines
TreeBlock(t, d) ==
    LET present == SelectSeq(TARGET_FILES, LAMBDA f : f \in t[d])
    IN  IF present = <<>> THEN <<>>
        ELSE <<d \o <<"/">>>> \o [k \in 1..Len(present) |-> <<" ", " ", " ", " ">> \o present[k]]

\* lines 44-71: build_prompt_tree over a tree whose directories hold no directories
build_prompt_tree(t) == Concat([k \in 1..Len(DirNames) |-> TreeBlock(t, DirNames[k])])

\* lines 202-207: the list file main writes
WriteList(tree_lines) ==
    IF tree_lines = <<>>
    THEN <<<<"#", " ", "N", "o", " ", "p", "r", "o", "m", "p", "t", " ", "f", "i", "l", "e", "s", " ", "f", "o", "u", "n", "d", " ", "u", "n", "d", "e", "r", " ", "p", "r", "o", "m", "p", "t", "/", "c", "o", "n", "t", "e", "x", "t">> \o <<"\n">>>>
    ELSE [k \in 1..Len(tree_lines) |-> tree_lines[k] \o <<"\n">>]

SENT == <<"[", "S", "E", "N", "T", "]">>

RECURSIVE RStrip(_, _)
\* str.rstrip(chars)
RStrip(t, S) == IF t # <<>> /\ t[Len(t)] \in S THEN RStrip(SubSeq(t, 1, Len(t) - 1), S) ELSE t

\* str.endswith
EndsWith(t, pat) == Len(pat) <= Len(t) /\ SubSeq(t, Len(t) - Len(pat) + 1, Len(t)) = pat

\* lines 111, 116 and 129: `x.strip().endswith('/')`
EndsWithSlash(line) == EndsWith(Strip(line), <<"/">>)

\* lines 114 and 173: `'[SENT]' in x`
HasSent(line) == FindSub(line, SENT, 0) >= 0

\* line 174 leaving the directory line as it is
MarkLineKept(line) == line

\* line 174: the directory line with its mark
MarkLine(line) == RStrip(line, {"\n"}) \o <<" ">> \o SENT \o <<"\n">>

\* lines 106 and 132: `not x or x.strip().startswith('#')`, x being the line
\* without its line feeds
BlankOrComment(line) ==
    LET x == RStrip(line, {"\n"})
    IN  x = <<>> \/ StartsWith(Strip(x), <<"#">>)

\* line 120: cur_dir
CurDir(line) == RStrip(Strip(RStrip(line, {"\n"})), {"/"})

\* line 136: fname
FileName(line) == Strip(RStrip(line, {"\n"}))

\* line 138: os.path.isfile of prompt/context/<cur_dir>/<fname>, in a tree whose
\* directories hold no directories
IsPromptFile(t, cur_dir, fname) == cur_dir \in DOMAIN t /\ fname \in t[cur_dir]

RECURSIVE SkipBlock(_, _)
\* lines 116-117: the 0-based index of the next line at or after i that ends
\* with "/", len(lines) when there is none
SkipBlock(ls, i) ==
    IF i < Len(ls) /\ ~EndsWithSlash(ls[i + 1]) THEN SkipBlock(ls, i + 1) ELSE i

InitSend ==
    /\ pc = "send_call"
    /\ LocateIdle
    /\ MetaIdle
    /\ CallIdle
    /\ LlmIdle
    /\ GenIdle
    /\ \E t \in Trees :
        /\ \E fault \in Faults(t) :
            /\ tree = [d \in DOMAIN t |-> {f \in t[d] : <<d, f>> \notin fault.deleted}]
            /\ raising = fault.raising
        /\ \E marked \in SUBSET {k \in 1..Len(WriteList(build_prompt_tree(t))) :
                                    EndsWithSlash(WriteList(build_prompt_tree(t))[k])} :
            list_file = [k \in 1..Len(WriteList(build_prompt_tree(t))) |->
                            IF k \in marked THEN MarkLine(WriteList(build_prompt_tree(t))[k])
                            ELSE WriteList(build_prompt_tree(t))[k]]
    /\ list_lines = <<>>
    /\ dir_i = 0
    /\ file_j = 0
    /\ sent = <<>>
    /\ run_no = 1
    /\ at_start = <<>>

\* lines 84-102: the list file is read
SendCall ==
    /\ pc = "send_call"
    /\ pc' = "send_outer"
    /\ list_lines' = list_file
    /\ at_start' = list_file
    /\ dir_i' = 0
    /\ file_j' = 0
    /\ UNCHANGED <<tree, raising, list_file, sent, run_no>>
    /\ UNCHANGED <<locateVars, metaVars, callVars, llmVars, genVars>>

\* lines 103-122 and 183-187: one iteration of the outer loop up to the inner loop
SendOuter ==
    /\ pc = "send_outer"
    /\ IF dir_i >= Len(list_lines)
       THEN pc' = "send_done" /\ UNCHANGED <<dir_i, file_j>>
       ELSE LET line == list_lines[dir_i + 1]
            IN  IF BlankOrComment(line)
                THEN dir_i' = dir_i + 1 /\ UNCHANGED <<pc, file_j>>
                ELSE IF EndsWithSlash(RStrip(line, {"\n"}))
                THEN IF HasSent(RStrip(line, {"\n"}))
                     THEN dir_i' = SkipBlock(list_lines, dir_i + 1) /\ UNCHANGED <<pc, file_j>>
                     ELSE pc' = "send_inner" /\ file_j' = dir_i + 1 /\ UNCHANGED dir_i
                ELSE dir_i' = dir_i + 1 /\ UNCHANGED <<pc, file_j>>
    /\ UNCHANGED <<tree, raising, list_file, list_lines, sent, run_no, at_start>>
    /\ UNCHANGED <<locateVars, metaVars, callVars, llmVars, genVars>>

\* line 126 and 129-130: the inner loop is at its end
BlockEnded ==
    IF file_j >= Len(list_lines) THEN TRUE
    ELSE EndsWithSlash(RStrip(list_lines[file_j + 1], {"\n"}))

\* the directory named on a directory line, marked or not
NamedDir(line) == SubSeq(line, 1, FindSub(line, <<"/">>, 0))

RECURSIVE DirLineAbove(_, _)
\* the last of the first j lines that names a directory
DirLineAbove(ls, j) ==
    IF j = 0 THEN <<>>
    ELSE IF FindSub(ls[j], <<"/">>, 0) >= 0 THEN ls[j]
    ELSE DirLineAbove(ls, j - 1)

\* line 137 taking the directory of the nearest directory line above the file line
PromptDirOwn(ls, i, j) == NamedDir(DirLineAbove(ls, j))

\* line 137: the directory whose prompt the file line at index j of the block at
\* index i names
PromptDir(ls, i, j) == CurDir(ls[i + 1])

\* lines 126-169: one iteration of the inner loop; send_message_from_file returns
\* a reply (lines 148-165) or raises (lines 166-168)
SendInner ==
    /\ pc = "send_inner"
    /\ ~BlockEnded
    /\ LET line == list_lines[file_j + 1]
           cur_dir == PromptDir(list_lines, dir_i, file_j)
           fname == FileName(line)
       IN  IF BlankOrComment(line) \/ ~IsPromptFile(tree, cur_dir, fname)
           THEN UNCHANGED sent
           ELSE sent' = Append(sent, [run |-> run_no, block |-> dir_i, line |-> file_j,
                                      dir |-> cur_dir, fname |-> fname,
                                      outcome |-> IF <<cur_dir, fname>> \in raising
                                                  THEN "exception" ELSE "reply"])
    /\ file_j' = file_j + 1
    /\ UNCHANGED <<pc, tree, raising, list_file, list_lines, dir_i, run_no, at_start>>
    /\ UNCHANGED <<locateVars, metaVars, callVars, llmVars, genVars>>

\* lines 172-182: the directory line is marked and the list is written back
SendMark ==
    /\ pc = "send_inner"
    /\ BlockEnded
    /\ pc' = "send_outer"
    /\ IF ~HasSent(list_lines[dir_i + 1])
       THEN /\ list_lines' = [list_lines EXCEPT ![dir_i + 1] = MarkLine(@)]
            /\ list_file' = list_lines'
       ELSE UNCHANGED <<list_lines, list_file>>
    /\ dir_i' = file_j
    /\ UNCHANGED <<tree, raising, file_j, sent, run_no, at_start>>
    /\ UNCHANGED <<locateVars, metaVars, callVars, llmVars, genVars>>

\* the process ends, by itself or killed, and main is run again: lines 196-198
\* keep the list file, line 212 calls the sender
SendAgain ==
    /\ pc \in {"send_outer", "send_inner", "send_done"}
    /\ run_no = 1
    /\ pc' = "send_call"
    /\ run_no' = 2
    /\ list_lines' = <<>>
    /\ dir_i' = 0
    /\ file_j' = 0
    /\ UNCHANGED <<tree, raising, list_file, sent, at_start>>
    /\ UNCHANGED <<locateVars, metaVars, callVars, llmVars, genVars>>

NextSend == SendCall \/ SendOuter \/ SendInner \/ SendMark \/ SendAgain

SpecSend == InitSend /\ [][NextSend]_vars

(***************************************************************************)
(* Notions of the claims about the sender.                                 *)
(***************************************************************************)
\* the calls of send_message_from_file of the current run
SentNow == SelectSeq(sent, LAMBDA e : e.run = run_no)

\* the current run has read the list file
Running == pc \in {"send_outer", "send_inner", "send_done"}

\* a directory line without a mark
IsUnmarkedDir(line) == EndsWithSlash(RStrip(line, {"\n"})) /\ ~HasSent(line)

\* a directory line that carries the mark
IsMarkedDir(line) == FindSub(line, <<"/">>, 0) >= 0 /\ HasSent(line)

\* C22: a directory block whose directory line carries [SENT] when the run reads
\* the list file is skipped: no prompt file of that directory is sent during the
\* run, and its line stays as it was, in memory and on disk.
C22_MarkedSkipped ==
    Running =>
        \A k \in 1..Len(at_start) :
            IsMarkedDir(at_start[k]) =>
                /\ list_lines[k] = at_start[k]
                /\ list_file[k] = at_start[k]
                /\ \A n \in 1..Len(SentNow) : SentNow[n].dir # NamedDir(at_start[k])

\* a run is over in which a marked directory that holds a prompt file follows an
\* unmarked one whose prompt was sent
C22_Witness ==
    /\ pc = "send_done"
    /\ Len(at_start) = 4
    /\ IsUnmarkedDir(at_start[1])
    /\ IsMarkedDir(at_start[3])
    /\ tree[NamedDir(at_start[3])] # {}
    /\ Len(SentNow) >= 1
    /\ SentNow[1].dir = NamedDir(at_start[1])

\* C29: within one run each prompt file path is sent at most once.
C29_SentOnce ==
    \A a, b \in 1..Len(SentNow) :
        (SentNow[a].dir = SentNow[b].dir /\ SentNow[a].fname = SentNow[b].fname) => a = b

\* C29 for the list files none of whose directory lines is marked
C29_SentOnceNoneMarked ==
    (Running /\ \A k \in 1..Len(at_start) : ~IsMarkedDir(at_start[k])) => C29_SentOnce

\* the 1-based indices of the lines of the block that the directory line k opens:
\* the lines after it up to the next line that ends with "/"
BlockLines(ls, k) == (k + 1)..SkipBlock(ls, k)

\* the directory line k, unmarked when the run read the list, is marked on disk
MarkedOnDisk(k) == list_file[k] = RStrip(at_start[k], {"\n"}) \o <<" ", "[", "S", "E", "N", "T", "]">> \o <<"\n">>

\* the blocks before the outer loop's index are marked on disk, whatever their
\* sends gave
EarlierBlocksMarked ==
    \A k \in 1..Len(at_start) : (k <= dir_i /\ IsUnmarkedDir(at_start[k])) => MarkedOnDisk(k)

\* every prompt of the block of directory line k that exists was sent in this run
SentInFull(k) ==
    \A m \in BlockLines(at_start, k) :
        (~BlankOrComment(at_start[m])
            /\ IsPromptFile(tree, CurDir(at_start[k]), FileName(at_start[m])))
        => \E n \in 1..Len(SentNow) : SentNow[n].block = k - 1 /\ SentNow[n].line = m - 1

MaxLlmCalls == 3   \* calls of _get_llm in a row

\* line 11
DEFAULT_MODEL == "gpt-5-mini"

\* the keyword arguments of a call: any of model, temperature and one further
\* argument of the constructor may be given
LlmKwargs ==
    {[k \in ks |-> IF k = "model" THEN c.model
                   ELSE IF k = "temperature" THEN c.temperature
                   ELSE c.timeout] :
        ks \in SUBSET {"model", "temperature", "timeout"},
        c \in [model : {DEFAULT_MODEL, "m2"}, temperature : {0, 1}, timeout : {5}]}

\* dict.pop(key, default) of lines 38-39: the value
Pop(kw, key, default) == IF key \in DOMAIN kw THEN kw[key] ELSE default

\* model_kwargs after the two pops of lines 38-39
Popped(kw) == [k \in (DOMAIN kw) \ {"model", "temperature"} |-> kw[k]]

\* lines 38-44: cfg_signature, a dict; the order of its keys does not enter `!=`
CfgSignature(kw) ==
    LET model == Pop(kw, "model", DEFAULT_MODEL)
        temperature == Pop(kw, "temperature", 0)
        rest == Popped(kw)
    IN  [k \in {"model", "temperature"} \cup DOMAIN rest |->
            IF k = "model" THEN model
            ELSE IF k = "temperature" THEN temperature
            ELSE rest[k]]

\* line 47: the instance ChatOpenAI(model=model, temperature=temperature,
\* **model_kwargs) gives, the n-th one constructed
ChatOpenAI(n, kw) ==
    [serial |-> n,
     model |-> Pop(kw, "model", DEFAULT_MODEL),
     temperature |-> Pop(kw, "temperature", 0),
     kwargs |-> Popped(kw)]

\* line 46 looking only for a cached instance
NeedsBuildFirstOnly(instance, config, cfg) == instance = NoneRecord

\* line 46: `_LLM_INSTANCE is None or _LLM_CONFIG != cfg_signature`
NeedsBuild(instance, config, cfg) ==
    IF instance = NoneRecord THEN TRUE ELSE config # cfg

InitLlm ==
    /\ pc = "llm_call"
    /\ LocateIdle
    /\ MetaIdle
    /\ CallIdle
    /\ SendIdle
    /\ GenIdle
    /\ LlmIdle

\* lines 30-49 with _load_env (lines 14-27): one call.  OPENAI_API_KEY is set or
\* not; the constructor returns or raises.
GetLlm ==
    /\ pc = "llm_call"
    /\ llm_call.no < MaxLlmCalls
    /\ \E kw \in LlmKwargs, api_key \in BOOLEAN, constructs \in BOOLEAN :
        LET cfg == CfgSignature(kw)
            Outcome(outcome, returned) ==
                [no |-> llm_call.no + 1, kwargs |-> kw, instance |-> LLM_INSTANCE,
                 config |-> LLM_CONFIG, built |-> llm_built,
                 outcome |-> outcome, returned |-> returned]
        IN  IF ~api_key
            THEN /\ llm_call' = Outcome("EnvironmentError", NoneRecord)
                 /\ UNCHANGED <<LLM_INSTANCE, LLM_CONFIG, llm_built>>
            ELSE IF NeedsBuild(LLM_INSTANCE, LLM_CONFIG, cfg)
            THEN IF constructs
                 THEN /\ LLM_INSTANCE' = ChatOpenAI(llm_built + 1, kw)
                      /\ LLM_CONFIG' = cfg
                      /\ llm_built' = llm_built + 1
                      /\ llm_call' = Outcome("returned", LLM_INSTANCE')
                 ELSE /\ llm_call' = Outcome("constructor error", NoneRecord)
                      /\ UNCHANGED <<LLM_INSTANCE, LLM_CONFIG, llm_built>>
            ELSE /\ llm_call' = Outcome("returned", LLM_INSTANCE)
                 /\ UNCHANGED <<LLM_INSTANCE, LLM_CONFIG, llm_built>>
    /\ UNCHANGED pc
    /\ UNCHANGED <<locateVars, metaVars, callVars, sendVars, genVars>>

NextLlm == GetLlm

SpecLlm == InitLlm /\ [][NextLlm]_vars

\* the configuration an instance was constructed with
BuiltWith(instance) ==
    [k \in {"model", "temperature"} \cup DOMAIN instance.kwargs |->
        IF k = "model" THEN instance.model
        ELSE IF k = "temperature" THEN instance.temperature
        ELSE instance.kwargs[k]]

\* the configuration of a call: the given arguments over the defaults
CallConfig(kw) ==
    [k \in {"model", "temperature"} \cup DOMAIN kw |->
        IF k \in DOMAIN kw THEN kw[k]
        ELSE IF k = "model" THEN DEFAULT_MODEL ELSE 0]

\* C24: the cached configuration describes the cached instance; a call that
\* returns gives the cached instance, constructed with exactly the configuration
\* of the call, and has constructed a new one iff there was none or the cached
\* configuration differed; a call that raises leaves instance and configuration
\* as they were.
C24_CacheMatchesCall ==
    /\ (LLM_INSTANCE = NoneRecord) <=> (LLM_CONFIG = NoneRecord)
    /\ LLM_INSTANCE # NoneRecord => LLM_CONFIG = BuiltWith(LLM_INSTANCE)
    /\ llm_call.no > 0 =>
        IF llm_call.outcome = "returned"
        THEN /\ llm_call.returned = LLM_INSTANCE
             /\ BuiltWith(llm_call.returned) = CallConfig(llm_call.kwargs)
             /\ (llm_built = llm_call.built + 1)
                    <=> (IF llm_call.instance = NoneRecord THEN TRUE
                         ELSE BuiltWith(llm_call.instance) # CallConfig(llm_call.kwargs))
             /\ llm_built \in {llm_call.built, llm_call.built + 1}
             /\ llm_built = llm_call.built => LLM_INSTANCE = llm_call.instance
             /\ llm_built = llm_call.built + 1 => LLM_INSTANCE.serial = llm_built
        ELSE /\ LLM_INSTANCE = llm_call.instance
             /\ LLM_CONFIG = llm_call.config
             /\ llm_built = llm_call.built

\* a call with another configuration than the cached one has replaced the instance
C24_Witness ==
    /\ llm_call.no > 0
    /\ llm_call.outcome = "returned"
    /\ llm_call.instance # NoneRecord
    /\ llm_call.returned # llm_call.instance
    /\ llm_built = 2

\* a call has raised while an instance was cached
C24_WitnessRaised ==
    /\ llm_call.no > 0
    /\ llm_call.outcome = "constructor error"
    /\ LLM_INSTANCE # NoneRecord

(***************************************************************************)
(* generate_prompt_files of src/util/prompt_pack.py.  A file content and a  *)
(* template are sequences of tokens; a placeholder is one token.            *)
(***************************************************************************)
MaxGenCalls == 2   \* calls of generate_prompt_files in a row

\* lines 5-11, in the order of the dict
TEMPLATE_PLACEHOLDERS ==
    <<[placeholder |-> "{{CVE_NAME}}", key |-> "name"],
      [placeholder |-> "{{PATCH_DESCRIPTION}}", key |-> "patch_description"],
      [placeholder |-> "{{PATCH_DIFF}}", key |-> "patch_diff"],
      [placeholder |-> "{{FILE_CONTENT}}", key |-> "__FILE_CONTENT__"],
      [placeholder |-> "{{FUNCTION_CONTENT}}", key |-> "__FUNCTION_CONTENT__"]>>

\* lines 60-62: the output paths, for the directory of the name "CVE"
OutPaths == {"context/CVE/prompt_file.txt", "context/CVE/prompt_patch.txt",
             "context/CVE/prompt_function.txt"}

\* lines 55-57: the artifacts
ArtifactPaths == {"context/CVE/patch.txt", "context/CVE/file.txt", "context/CVE/function.txt"}

\* lines 80-82: the templates
TemplatePaths == {"temp/prompt_file.txt", "temp/prompt_patch.txt", "temp/prompt_function.txt"}

\* os.path.isfile
IsFile(fsys, path) == path \in DOMAIN fsys

\* the contents the files have when they exist before the first call
FirstContent ==
    [p \in OutPaths \cup ArtifactPaths \cup TemplatePaths |->
        IF p \in OutPaths THEN <<"old">>
        ELSE IF p = "context/CVE/patch.txt" THEN <<"P">>
        ELSE IF p = "context/CVE/file.txt" THEN <<"F">>
        ELSE IF p = "context/CVE/function.txt" THEN <<"U">>
        ELSE IF p = "temp/prompt_file.txt" THEN <<"{{CVE_NAME}}", "{{FILE_CONTENT}}">>
        ELSE IF p = "temp/prompt_patch.txt" THEN <<"{{CVE_NAME}}", "{{PATCH_DIFF}}", "{{PATCH_DESCRIPTION}}">>
        ELSE <<"{{FUNCTION_CONTENT}}", "{{CVE_NAME}}">>]

\* the sets of files that exist before the first call
FirstFiles ==
    {outs \cup arts \cup tpls :
        outs \in SUBSET OutPaths,
        arts \in {ArtifactPaths, ArtifactPaths \ {"context/CVE/function.txt"}, {}},
        tpls \in {TemplatePaths, TemplatePaths \ {"temp/prompt_patch.txt"}, {}}}

\* the meta records given: name and patch_diff absent, empty or given
GenMetas ==
    [name : {None, <<>>, <<"CVE">>},
     patch_diff : {None, <<"d">>},
     patch_description : {None, <<"w">>}]

RECURSIVE Replace(_, _, _)
\* str.replace(placeholder, value)
Replace(t, placeholder, value) ==
    IF t = <<>> THEN <<>>
    ELSE (IF Head(t) = placeholder THEN value ELSE <<Head(t)>>)
            \o Replace(Tail(t), placeholder, value)

\* line 37: `meta.get(key) or ''`
GetOrEmpty(m, key) == IF m[key] = None THEN <<>> ELSE m[key]

RECURSIVE RenderFrom(_, _, _, _, _)
\* lines 30-39: the loop over the placeholders from the k-th on
RenderFrom(rendered, k, m, file_content, function_content) ==
    IF k > Len(TEMPLATE_PLACEHOLDERS) THEN rendered
    ELSE LET key == TEMPLATE_PLACEHOLDERS[k].key
             value == IF key = "__FILE_CONTENT__" THEN file_content
                      ELSE IF key = "__FUNCTION_CONTENT__" THEN function_content
                      ELSE GetOrEmpty(m, key)
         IN  RenderFrom(Replace(rendered, TEMPLATE_PLACEHOLDERS[k].placeholder, value),
                        k + 1, m, file_content, function_content)

\* lines 17-39: _render_template
render_template(tmpl, m, file_content, function_content) ==
    RenderFrom(tmpl, 1, m, file_content, function_content)

\* lines 99-100 writing whether or not the file exists
WriteAlways(fsys, path, text) ==
    [p \in DOMAIN fsys \cup {path} |-> IF p = path THEN text ELSE fsys[p]]

\* lines 98-100, 103-105, 108-110: the file is written if it is missing
WriteIfMissing(fsys, path, text) ==
    IF IsFile(fsys, path) THEN fsys
    ELSE [p \in DOMAIN fsys \cup {path} |-> IF p = path THEN text ELSE fsys[p]]

\* lines 86-111: the three templates are rendered and the missing outputs written
Generated(fsys, m) ==
    LET file_content == fsys["context/CVE/file.txt"]
        function_content == fsys["context/CVE/function.txt"]
        rendered_file == render_template(fsys["temp/prompt_file.txt"], m, file_content, function_content)
        rendered_patch == render_template(fsys["temp/prompt_patch.txt"], m, file_content, function_content)
        rendered_function == render_template(fsys["temp/prompt_function.txt"], m, file_content, function_content)
        f1 == WriteIfMissing(fsys, "context/CVE/prompt_file.txt", rendered_file)
        f2 == WriteIfMissing(f1, "context/CVE/prompt_patch.txt", rendered_patch)
    IN  WriteIfMissing(f2, "context/CVE/prompt_function.txt", rendered_function)

InitGen ==
    /\ pc = "gen_call"
    /\ LocateIdle
    /\ MetaIdle
    /\ CallIdle
    /\ SendIdle
    /\ LlmIdle
    /\ \E present \in FirstFiles : files = [p \in present |-> FirstContent[p]]
    /\ gen_call = [no |-> 0]

\* lines 41-113: one call
GenerateCall ==
    /\ pc = "gen_call"
    /\ gen_call.no < MaxGenCalls
    /\ \E m \in GenMetas :
        LET Outcome(outcome, reads, rendered) ==
                [no |-> gen_call.no + 1, meta |-> m, before |-> files,
                 outcome |-> outcome, reads |-> reads, rendered |-> rendered]
        IN  IF m.name = None \/ m.name = <<>>
            THEN gen_call' = Outcome("RuntimeError", {}, FALSE) /\ UNCHANGED files
            ELSE IF m.patch_diff = None \/ m.patch_diff = <<>>
            THEN gen_call' = Outcome("RuntimeError", {}, FALSE) /\ UNCHANGED files
            ELSE IF \A p \in OutPaths : IsFile(files, p)
            THEN gen_call' = Outcome("returned", {}, FALSE) /\ UNCHANGED files
            ELSE IF \E p \in ArtifactPaths : ~IsFile(files, p)
            THEN gen_call' = Outcome("RuntimeError", {}, FALSE) /\ UNCHANGED files
            ELSE IF \E p \in TemplatePaths : ~IsFile(files, p)
            THEN gen_call' = Outcome("RuntimeError", ArtifactPaths, FALSE) /\ UNCHANGED files
            ELSE /\ gen_call' = Outcome("returned", ArtifactPaths \cup TemplatePaths, TRUE)
                 /\ files' = Generated(files, m)
    /\ UNCHANGED pc
    /\ UNCHANGED <<locateVars, metaVars, callVars, sendVars, llmVars>>

NextGen == GenerateCall

SpecGen == InitGen /\ [][NextGen]_vars

\* C25: a call of generate_prompt_files leaves every file that exists as it is and
\* creates only output prompt files, each only when it was missing; when the three
\* outputs exist nothing is read or rendered; a call that raises (name or patch_diff
\* missing, an artifact or a template missing) writes no file.
C25_ExistingOutputsKept ==
    gen_call.no > 0 =>
        LET b == gen_call.before
            m == gen_call.meta
            unnamed == m.name \in {None, <<>>} \/ m.patch_diff \in {None, <<>>}
            all_out == OutPaths \subseteq DOMAIN b
            all_in == (ArtifactPaths \cup TemplatePaths) \subseteq DOMAIN b
        IN  /\ \A p \in DOMAIN b : p \in DOMAIN files /\ files[p] = b[p]
            /\ (DOMAIN files) \ (DOMAIN b) \subseteq OutPaths
            /\ all_out => (gen_call.reads = {} /\ ~gen_call.rendered /\ DOMAIN files = DOMAIN b)
            /\ (gen_call.outcome = "RuntimeError") <=> (unnamed \/ (~all_out /\ ~all_in))
            /\ gen_call.outcome = "RuntimeError" => (DOMAIN files = DOMAIN b /\ ~gen_call.rendered)
            /\ gen_call.outcome = "returned" => OutPaths \subseteq DOMAIN files

\* a call has written the two missing outputs beside an output that existed
C25_Witness ==
    /\ gen_call.no > 0
    /\ gen_call.outcome = "returned"
    /\ gen_call.rendered
    /\ DOMAIN gen_call.before \cap OutPaths = {"context/CVE/prompt_file.txt"}
    /\ files["context/CVE/prompt_file.txt"] = <<"old">>
    /\ files["context/CVE/prompt_patch.txt"] = <<"CVE", "d", "w">>
    /\ files["context/CVE/prompt_function.txt"] = <<"U", "CVE">>

\* a call has raised for a missing template after it had read the artifacts
C25_WitnessRaised ==
    /\ gen_call.no > 0
    /\ gen_call.outcome = "RuntimeError"
    /\ gen_call.reads = ArtifactPaths
    /\ DOMAIN files \cap OutPaths = {"context/CVE/prompt_file.txt"}

====
